---- MODULE Spec2Model ----
(***************************************************************************)
(* Global termination detection over OpenSHMEM one-sided memory.           *)
(*                                                                         *)
(* The module models src/global_done_hstar.c (H-STAR, specification Spec)  *)
(* and src/global_done_star.c (STAR, specification StarSpec) statement by  *)
(* statement: main's symmetric allocations, the zero initialisation in     *)
(* allocate_star_flags, and run_hstar_termination / run_star_termination.  *)
(* Every PE is a process with a program counter; symmetric memory is one   *)
(* copy of every object per PE; a put is a message in flight until it is   *)
(* delivered, and shmem_quiet blocks until the caller's puts are delivered.*)
(*                                                                         *)
(* Spec, LiveSpec      H-STAR, every interleaving, small N, G and K        *)
(* StarSpec            STAR, every interleaving, small N and G             *)
(* BarrierExitSpec     a run of either program                             *)
(* PlanSpec            compute_levels_and_groups alone, N up to PlanMaxN   *)
(* Scenario70Spec,     run_hstar_termination on 70 and on 64 PEs with      *)
(* Scenario64Spec      G = K = 8, along one fair schedule                  *)
(* DynSpec             src/global_done_tree_dynamic.c, every interleaving  *)
(*                     of its remote reads and atomics, small N and G      *)
(* TreeSpec            src/global_done_tree.c, the static binary tree      *)
(* StarLiveSpec        STAR with fair PEs and fair delivery of puts        *)
(* OrigSpec            src/global_done_original.c, one scan per PE         *)
(* TdSpec              src/incomplete_versions/treedone.c, its self-test   *)
(*                     on a k-ary heap tree of up to TdMaxN PEs            *)
(* TdLiveSpec          the self-test with fair PEs and fair delivery       *)
(* TopoSpec            build_topology and slot_index alone, N up to        *)
(*                     TopoMaxN                                            *)
(* EnvSpec             env_group_size and env_branch_k on short strings    *)
(* MpiSpec             src/incomplete_versions/                            *)
(*                     mpi_treereduce_vs_allreduce.c, the k-ary reduction  *)
(*                     and broadcast over messages, long of LongBits bits  *)
(* DynLiveSpec         DynSpec with fair PEs and fair delivery of puts     *)
(* BenchSpec,          src/treedone_bench.c, the warmup and timed rounds   *)
(* BenchLiveSpec       of treedone_collective_tree, without and with       *)
(*                     fairness                                            *)
(***************************************************************************)
EXTENDS Integers, Sequences, FiniteSets, TLC

(* ------------------------------ bounds --------------------------------- *)
\* largest number of PEs, leaf group size and branching factor explored
MaxN == 3
MaxG == 2
MaxK == 3
\* cap on LEAF_COUNT in the runs of global_done_tree_dynamic.c
MaxCount == 3
\* largest N, G and K for which the topology planner alone is explored
PlanMaxN == 70
PlanMaxG == 8
PlanMaxK == 8

(* ----------------------------- constants ------------------------------- *)
\* -1 = done, 0 = not done
DONE == -1
NOT_DONE == 0
ROOT_PE == 0
\* content of freshly allocated symmetric memory: indeterminate, and
\* different from both values the program stores
UNINIT == 7
\* the NULL pointer / an array that has not been allocated
NULL == << >>

VARIABLES
    npes,                      \* shmem_n_pes()
    G_LEAF,                    \* leaf group size
    K,                         \* branching factor above the leaf
    exit_status,               \* "running", or the status of shmem_global_exit
    pc,                        \* pc[p]: position of PE p in main
    lvl, grp, idx,             \* loop variables l, g and i / c / pe of PE p
    mallocs,                   \* number of shmem_malloc calls PE p returned from
    LEVELS, NUM_GROUPS, NUM_GROUPS0,
    LOCAL_DONE, ELAPSED_MS,
    GROUP_PE_DONE, ROOT_GROUP_DONE, GLOBAL_TERMINATION_READY,
    LVL_CHILD_DONE,            \* [p][l][g]: which buffer the pointer designates
    LVL_BUF,                   \* [p][<<l,g>>]: the buffers allocated at line 172
    LVL_BCAST_TOKEN,
    inflight,                  \* puts issued and not yet delivered
    wrote,                     \* history: <<writer, target, object, l, g, i>>
    rma,                       \* history: <<issuer, target, target had left the final barrier>>
    agg,                       \* the root's sum, minv, maxv (lines 259-266)
    stdout,                    \* lines printed by the root
    \* global_done_tree_dynamic.c
    MAX_LEVELS,                \* number of levels, the root level included
    GROUP_DONE, GROUP_LEADER,  \* [p][L][g], hosted at the static group owner
    LEAF_COUNT,                \* [p][g], hosted at the static leaf owner
    AGG_PRINTED, ROOT_GO, EXIT_ACKS,
    loc,                       \* loc[p]: left_done of PE p (line 274)
    fetched,                   \* history: fetch-increments of LEAF_COUNT by PE p
    elected,                   \* history: those of them with prior == gsize - 1
    \* treedone.c
    GLOBAL_DONE,               \* [p]: 0 (running) or -1 (terminate)
    child_vals,                \* [p][i]: the slot child i of p writes 1 into
    barriers,                  \* number of shmem_barrier_all calls PE p entered
    topology,                  \* [p]: the fields build_topology stored into td
    environ,                   \* getenv: name |-> NULL or <<string>>; NULL: not modelled
    \* mpi_treereduce_vs_allreduce.c
    count,                     \* --count: the number of elements of a buffer
    plan,                      \* [p]: the fields tree_plan_init stored into pl
    my, out,                   \* [p][j]: the send and the receive buffer of main
    acc,                       \* [p][j]: pl->acc
    tmp_all,                   \* [p][i][j]: pl->tmp_all, one block per child
    red_recvs, bcast_sends,    \* [p][i]: "null", "active" or "complete"
    mpi_msgs                   \* messages sent and not yet received

cfgVars  == <<npes, G_LEAF, K, environ>>
planVars == <<LEVELS, NUM_GROUPS, NUM_GROUPS0>>
regVars  == <<lvl, grp, idx>>
locVars  == <<LOCAL_DONE, ELAPSED_MS>>
starVars == <<GROUP_PE_DONE, ROOT_GROUP_DONE, GLOBAL_TERMINATION_READY>>
lvlVars  == <<LVL_CHILD_DONE, LVL_BUF, LVL_BCAST_TOKEN>>
memVars  == <<locVars, starVars, lvlVars>>
\* network, probes and output
netVars  == <<inflight, wrote, rma, agg, stdout>>
\* state of global_done_tree_dynamic.c that the other programs do not have
dynVars  == <<MAX_LEVELS, GROUP_DONE, GROUP_LEADER, LEAF_COUNT, AGG_PRINTED, ROOT_GO,
              EXIT_ACKS, loc, fetched, elected>>
\* state of treedone.c that the global_done programs do not have
tdVars   == <<GLOBAL_DONE, child_vals, barriers, topology>>
\* what no step of the global_done programs changes
mpiVars  == <<count, plan, my, out, acc, tmp_all, red_recvs, bcast_sends, mpi_msgs>>
heldVars == <<cfgVars, tdVars, mpiVars>>
vars == <<cfgVars, exit_status, pc, regVars, mallocs, planVars, memVars, netVars, dynVars,
          tdVars, mpiVars>>

PEs == 0 .. npes - 1

(* ------------------------- topology planner ---------------------------- *)
\* mutant: the division rounds down
ceil_div_floor(a, b) == a \div b

\* ceil_div for the non-negative operands the program passes
ceil_div(a, b) == (a + b - 1) \div b

RECURSIVE ipow(_, _)
ipow(base, exp) == IF exp > 0 THEN base * ipow(base, exp - 1) ELSE 1

group_span_at_level(leaf_size, level) == leaf_size * ipow(K, level)

\* mutant: the owner computed with the leaf span at every level
static_group_owner_pe_leaf_span(leaf_size, level, group_idx) ==
    group_idx * leaf_size

\* mutant: the owner is the last PE of the group's nominal span
static_group_owner_pe_last(leaf_size, level, group_idx) ==
    (group_idx + 1) * group_span_at_level(leaf_size, level) - 1

static_group_owner_pe(leaf_size, level, group_idx) ==
    group_idx * group_span_at_level(leaf_size, level)

\* mutant: the planner stops at two levels whenever there is more than one
\* leaf group
count_levels_two(prev, levels) == IF prev > 1 THEN levels + 1 ELSE levels

\* the while loop of compute_levels_and_groups
RECURSIVE count_levels(_, _)
count_levels(prev, levels) ==
    IF prev > 1 THEN count_levels(ceil_div(prev, K), levels + 1) ELSE levels

\* mutant: the planner always puts a level above the single-group level
compute_LEVELS_above(n) == count_levels(ceil_div(n, G_LEAF), 1) + 1

compute_LEVELS(n) == count_levels(ceil_div(n, G_LEAF), 1)

\* the for loop that fills NUM_GROUPS
RECURSIVE fill_NUM_GROUPS(_, _, _)
fill_NUM_GROUPS(ng, l, levels) ==
    IF l < levels
    THEN fill_NUM_GROUPS(ng @@ (l :> ceil_div(ng[l - 1], K)), l + 1, levels)
    ELSE ng

compute_NUM_GROUPS(n, levels) ==
    fill_NUM_GROUPS((0 :> ceil_div(n, G_LEAF)), 1, levels)

Array(n, v) == [i \in 0 .. n - 1 |-> v]

(* ------------------------------- Init ---------------------------------- *)
\* the state of global_done_tree_dynamic.c before its main allocates
DynInitMemory ==
    /\ MAX_LEVELS = [p \in PEs |-> 0]
    /\ GROUP_DONE = [p \in PEs |-> NULL]
    /\ GROUP_LEADER = [p \in PEs |-> NULL]
    /\ LEAF_COUNT = [p \in PEs |-> NULL]
    /\ AGG_PRINTED = [p \in PEs |-> NULL]
    /\ ROOT_GO = [p \in PEs |-> NULL]
    /\ EXIT_ACKS = [p \in PEs |-> NULL]
    /\ loc = [p \in PEs |-> 0]
    /\ fetched = [p \in PEs |-> 0]
    /\ elected = [p \in PEs |-> 0]
    /\ GLOBAL_DONE = [p \in PEs |-> NULL]
    /\ child_vals = [p \in PEs |-> NULL]
    /\ barriers = [p \in PEs |-> 0]
    /\ topology = [p \in PEs |-> NULL]

MainMemory ==
    /\ DynInitMemory
    /\ exit_status = "running"
    /\ mallocs = [p \in PEs |-> 0]
    /\ lvl = [p \in PEs |-> 0]
    /\ grp = [p \in PEs |-> 0]
    /\ idx = [p \in PEs |-> 0]
    /\ LEVELS = [p \in PEs |-> 1]
    /\ NUM_GROUPS = [p \in PEs |-> NULL]
    /\ NUM_GROUPS0 = [p \in PEs |-> 0]
    /\ LOCAL_DONE = [p \in PEs |-> NULL]
    /\ ELAPSED_MS = [p \in PEs |-> NULL]
    /\ GROUP_PE_DONE = [p \in PEs |-> NULL]
    /\ ROOT_GROUP_DONE = [p \in PEs |-> NULL]
    /\ GLOBAL_TERMINATION_READY = [p \in PEs |-> NULL]
    /\ LVL_CHILD_DONE = [p \in PEs |-> NULL]
    /\ LVL_BUF = [p \in PEs |-> NULL]
    /\ LVL_BCAST_TOKEN = [p \in PEs |-> NULL]
    /\ inflight = {}
    /\ wrote = {}
    /\ rma = {}
    /\ agg = [sum |-> 0, minv |-> 0, maxv |-> 0]
    /\ stdout = << >>

\* no rank has entered the MPI benchmark
MpiIdle ==
    /\ count = 0
    /\ plan = [p \in PEs |-> NULL]
    /\ my = [p \in PEs |-> NULL]
    /\ out = [p \in PEs |-> NULL]
    /\ acc = [p \in PEs |-> NULL]
    /\ tmp_all = [p \in PEs |-> NULL]
    /\ red_recvs = [p \in PEs |-> NULL]
    /\ bcast_sends = [p \in PEs |-> NULL]
    /\ mpi_msgs = {}

\* the programs start after main has read its environment
InitMemory == MainMemory /\ environ = NULL /\ MpiIdle

\* state of main after the start barrier (line 340), G_LEAF and K read
Init ==
    /\ npes \in 1 .. MaxN
    /\ G_LEAF \in 1 .. MaxG
    /\ K \in 2 .. MaxK
    /\ pc = [p \in PEs |-> "main_malloc_LOCAL_DONE"]
    /\ InitMemory

(* --------------------------- substrate --------------------------------- *)
MallocPCs == {
    "main_malloc_LOCAL_DONE", "main_malloc_ELAPSED_MS",
    "compute_levels_and_groups",
    "malloc_GROUP_PE_DONE", "malloc_GROUP_PE_DONE_g",
    "malloc_ROOT_GROUP_DONE", "malloc_GLOBAL_TERMINATION_READY",
    "malloc_LVL_CHILD_DONE", "malloc_LVL_BCAST_TOKEN",
    "malloc_LVL_CHILD_DONE_l", "malloc_LVL_CHILD_DONE_lg",
    "malloc_LVL_BCAST_TOKEN_l",
    "star_main_malloc_LOCAL_DONE", "star_main_malloc_ELAPSED_MS",
    "star_malloc_GROUP_PE_DONE", "star_malloc_GROUP_PE_DONE_g",
    "star_malloc_ROOT_GROUP_DONE", "star_malloc_GLOBAL_TERMINATION_READY",
    "dyn_main_malloc", "dyn_malloc_tables", "dyn_malloc_level",
    "dyn_malloc_LEAF_COUNT",
    "tree_main_malloc", "tree_malloc_tables", "tree_malloc_level",
    "orig_main_malloc", "td_init_malloc", "bench_init_malloc"}

\* mutant: shmem_malloc without the barrier at exit
shmem_malloc_returns_alone(p) == TRUE

\* shmem_malloc is collective with a barrier at exit: it returns on p once
\* every PE has entered the same call
shmem_malloc_returns(p) ==
    \A q \in PEs : \/ mallocs[q] > mallocs[p]
                   \/ mallocs[q] = mallocs[p] /\ pc[q] \in MallocPCs

Goto(p, s) == pc' = [pc EXCEPT ![p] = s]

\* Malloc without the NULL check: the PE goes on after a failed allocation
Malloc_unchecked(p, ok, next) ==
    /\ shmem_malloc_returns(p)
    /\ mallocs' = [mallocs EXCEPT ![p] = @ + 1]
    /\ Goto(p, next)
    /\ UNCHANGED exit_status

\* a shmem_malloc call and the NULL check after it: ok is whether the
\* pointers checked are non-NULL; otherwise shmem_global_exit(1) ends the job
Malloc(p, ok, next) ==
    /\ shmem_malloc_returns(p)
    /\ mallocs' = [mallocs EXCEPT ![p] = @ + 1]
    /\ IF ok THEN Goto(p, next) /\ UNCHANGED exit_status
             ELSE /\ exit_status' = "1"
                  /\ pc' = [q \in PEs |-> "exited"]


(* ---------------- main: symmetric allocations (lines 344-349) ---------- *)
main_malloc_LOCAL_DONE(p) ==
    /\ pc[p] = "main_malloc_LOCAL_DONE"
    /\ \E ok \in BOOLEAN :
         /\ shmem_malloc_returns(p)
         /\ mallocs' = [mallocs EXCEPT ![p] = @ + 1]
         /\ LOCAL_DONE' = [LOCAL_DONE EXCEPT ![p] = IF ok THEN <<UNINIT>> ELSE NULL]
    /\ Goto(p, "main_malloc_ELAPSED_MS")
    /\ UNCHANGED <<heldVars, dynVars, exit_status, regVars, planVars, ELAPSED_MS,
                   starVars, lvlVars, netVars>>

\* line 345 and the check of line 346
main_malloc_ELAPSED_MS(p) ==
    /\ pc[p] = "main_malloc_ELAPSED_MS"
    /\ \E ok \in BOOLEAN :
         /\ Malloc(p, ok /\ LOCAL_DONE[p] # NULL, "main_init_LOCAL_DONE")
         /\ ELAPSED_MS' = [ELAPSED_MS EXCEPT ![p] = IF ok THEN <<UNINIT>> ELSE NULL]
    /\ UNCHANGED <<heldVars, dynVars, regVars, planVars, LOCAL_DONE,
                   starVars, lvlVars, netVars>>

main_init_LOCAL_DONE(p) ==
    /\ pc[p] = "main_init_LOCAL_DONE"
    /\ LOCAL_DONE' = [LOCAL_DONE EXCEPT ![p] = <<NOT_DONE>>]
    /\ Goto(p, "main_init_ELAPSED_MS")
    /\ UNCHANGED <<heldVars, dynVars, exit_status, regVars, mallocs, planVars, ELAPSED_MS,
                   starVars, lvlVars, netVars>>

main_init_ELAPSED_MS(p) ==
    /\ pc[p] = "main_init_ELAPSED_MS"
    /\ ELAPSED_MS' = [ELAPSED_MS EXCEPT ![p] = <<0>>]
    /\ Goto(p, "compute_levels_and_groups")
    /\ UNCHANGED <<heldVars, dynVars, exit_status, regVars, mallocs, planVars, LOCAL_DONE,
                   starVars, lvlVars, netVars>>

(* ---------------- compute_levels_and_groups (lines 117-133) ------------ *)
compute_levels_and_groups(p) ==
    /\ pc[p] = "compute_levels_and_groups"
    /\ \E ok \in BOOLEAN :
         /\ Malloc(p, ok, "malloc_GROUP_PE_DONE")
         /\ LEVELS' = [LEVELS EXCEPT ![p] = compute_LEVELS(npes)]
         /\ NUM_GROUPS' = [NUM_GROUPS EXCEPT ![p] =
                IF ok THEN compute_NUM_GROUPS(npes, compute_LEVELS(npes)) ELSE NULL]
         /\ NUM_GROUPS0' = [NUM_GROUPS0 EXCEPT ![p] =
                IF ok THEN ceil_div(npes, G_LEAF) ELSE @]
    /\ UNCHANGED <<heldVars, dynVars, regVars, memVars, netVars>>

(* ---------------- allocate_star_flags (lines 136-191) ------------------ *)
\* line 141, and the loop head of line 143
malloc_GROUP_PE_DONE(p) ==
    /\ pc[p] = "malloc_GROUP_PE_DONE"
    /\ \E ok \in BOOLEAN :
         /\ Malloc(p, ok, IF 0 < NUM_GROUPS0[p] THEN "malloc_GROUP_PE_DONE_g"
                                                ELSE "malloc_ROOT_GROUP_DONE")
         /\ GROUP_PE_DONE' = [GROUP_PE_DONE EXCEPT ![p] =
                IF ok THEN Array(NUM_GROUPS0[p], NULL) ELSE @]
         /\ grp' = [grp EXCEPT ![p] = IF ok THEN 0 ELSE @]
    /\ UNCHANGED <<heldVars, dynVars, lvl, idx, planVars, locVars, ROOT_GROUP_DONE,
                   GLOBAL_TERMINATION_READY, lvlVars, netVars>>

\* line 144
malloc_GROUP_PE_DONE_g(p) ==
    /\ pc[p] = "malloc_GROUP_PE_DONE_g"
    /\ \E ok \in BOOLEAN :
         /\ Malloc(p, ok, IF 0 < G_LEAF THEN "zero_GROUP_PE_DONE"
                          ELSE IF grp[p] + 1 < NUM_GROUPS0[p]
                               THEN "malloc_GROUP_PE_DONE_g"
                               ELSE "malloc_ROOT_GROUP_DONE")
         /\ GROUP_PE_DONE' = [GROUP_PE_DONE EXCEPT ![p][grp[p]] =
                IF ok THEN Array(G_LEAF, UNINIT) ELSE @]
         /\ idx' = [idx EXCEPT ![p] = IF ok THEN 0 ELSE @]
         /\ grp' = [grp EXCEPT ![p] = IF ok /\ ~(0 < G_LEAF) THEN @ + 1 ELSE @]
    /\ UNCHANGED <<heldVars, dynVars, lvl, planVars, locVars, ROOT_GROUP_DONE,
                   GLOBAL_TERMINATION_READY, lvlVars, netVars>>

\* line 146: GROUP_PE_DONE[g][i] = 0, then i++ (and g++ after the last i)
zero_GROUP_PE_DONE(p) ==
    /\ pc[p] = "zero_GROUP_PE_DONE"
    /\ GROUP_PE_DONE' = [GROUP_PE_DONE EXCEPT ![p][grp[p]][idx[p]] = NOT_DONE]
    /\ IF idx[p] + 1 < G_LEAF
       THEN /\ idx' = [idx EXCEPT ![p] = @ + 1]
            /\ UNCHANGED <<grp, pc>>
       ELSE /\ grp' = [grp EXCEPT ![p] = @ + 1]
            /\ UNCHANGED idx
            /\ Goto(p, IF grp[p] + 1 < NUM_GROUPS0[p]
                       THEN "malloc_GROUP_PE_DONE_g"
                       ELSE "malloc_ROOT_GROUP_DONE")
    /\ UNCHANGED <<heldVars, dynVars, exit_status, lvl, mallocs, planVars, locVars,
                   ROOT_GROUP_DONE, GLOBAL_TERMINATION_READY, lvlVars, netVars>>

\* line 150
malloc_ROOT_GROUP_DONE(p) ==
    /\ pc[p] = "malloc_ROOT_GROUP_DONE"
    /\ \E ok \in BOOLEAN :
         /\ Malloc(p, ok, IF 0 < NUM_GROUPS0[p] THEN "zero_ROOT_GROUP_DONE"
                          ELSE "malloc_GLOBAL_TERMINATION_READY")
         /\ ROOT_GROUP_DONE' = [ROOT_GROUP_DONE EXCEPT ![p] =
                IF ok THEN Array(NUM_GROUPS0[p], UNINIT) ELSE @]
         /\ grp' = [grp EXCEPT ![p] = IF ok THEN 0 ELSE @]
    /\ UNCHANGED <<heldVars, dynVars, lvl, idx, planVars, locVars, GROUP_PE_DONE,
                   GLOBAL_TERMINATION_READY, lvlVars, netVars>>

\* line 152
zero_ROOT_GROUP_DONE(p) ==
    /\ pc[p] = "zero_ROOT_GROUP_DONE"
    /\ ROOT_GROUP_DONE' = [ROOT_GROUP_DONE EXCEPT ![p][grp[p]] = NOT_DONE]
    /\ grp' = [grp EXCEPT ![p] = @ + 1]
    /\ Goto(p, IF grp[p] + 1 < NUM_GROUPS0[p] THEN "zero_ROOT_GROUP_DONE"
               ELSE "malloc_GLOBAL_TERMINATION_READY")
    /\ UNCHANGED <<heldVars, dynVars, exit_status, lvl, idx, mallocs, planVars, locVars,
                   GROUP_PE_DONE, GLOBAL_TERMINATION_READY, lvlVars, netVars>>

\* line 155
malloc_GLOBAL_TERMINATION_READY(p) ==
    /\ pc[p] = "malloc_GLOBAL_TERMINATION_READY"
    /\ \E ok \in BOOLEAN :
         /\ Malloc(p, ok, "zero_GLOBAL_TERMINATION_READY")
         /\ GLOBAL_TERMINATION_READY' = [GLOBAL_TERMINATION_READY EXCEPT ![p] =
                IF ok THEN <<UNINIT>> ELSE @]
    /\ UNCHANGED <<heldVars, dynVars, regVars, planVars, locVars, GROUP_PE_DONE,
                   ROOT_GROUP_DONE, lvlVars, netVars>>

\* line 157
zero_GLOBAL_TERMINATION_READY(p) ==
    /\ pc[p] = "zero_GLOBAL_TERMINATION_READY"
    /\ GLOBAL_TERMINATION_READY' = [GLOBAL_TERMINATION_READY EXCEPT ![p] = <<NOT_DONE>>]
    /\ Goto(p, "malloc_LVL_CHILD_DONE")
    /\ UNCHANGED <<heldVars, dynVars, exit_status, regVars, mallocs, planVars, locVars,
                   GROUP_PE_DONE, ROOT_GROUP_DONE, lvlVars, netVars>>

\* line 160; a NULL result is seen by the check of line 162
malloc_LVL_CHILD_DONE(p) ==
    /\ pc[p] = "malloc_LVL_CHILD_DONE"
    /\ \E ok \in BOOLEAN :
         /\ shmem_malloc_returns(p)
         /\ mallocs' = [mallocs EXCEPT ![p] = @ + 1]
         /\ LVL_CHILD_DONE' = [LVL_CHILD_DONE EXCEPT ![p] =
                IF ok THEN Array(LEVELS[p], NULL) ELSE NULL]
    /\ Goto(p, "malloc_LVL_BCAST_TOKEN")
    /\ UNCHANGED <<heldVars, dynVars, exit_status, regVars, planVars, locVars, starVars,
                   LVL_BUF, LVL_BCAST_TOKEN, netVars>>

\* line 161, the check of line 162 and the loop head of line 164
malloc_LVL_BCAST_TOKEN(p) ==
    /\ pc[p] = "malloc_LVL_BCAST_TOKEN"
    /\ \E ok \in BOOLEAN :
         /\ Malloc(p, ok /\ LVL_CHILD_DONE[p] # NULL,
                   IF 0 < LEVELS[p] THEN "malloc_LVL_CHILD_DONE_l" ELSE "rht_local_done")
         /\ LVL_BCAST_TOKEN' = [LVL_BCAST_TOKEN EXCEPT ![p] =
                IF ok THEN Array(LEVELS[p], NULL) ELSE NULL]
    /\ lvl' = [lvl EXCEPT ![p] = 0]
    /\ grp' = [grp EXCEPT ![p] = 0]
    /\ UNCHANGED <<heldVars, dynVars, idx, planVars, locVars, starVars,
                   LVL_CHILD_DONE, LVL_BUF, netVars>>

\* const int cap = (l == 0) ? G_LEAF : K  (line 166)
cap(l) == IF l = 0 THEN G_LEAF ELSE K

\* line 169, and the loop head of line 171
malloc_LVL_CHILD_DONE_l(p) ==
    /\ pc[p] = "malloc_LVL_CHILD_DONE_l"
    /\ \E ok \in BOOLEAN :
         /\ Malloc(p, ok, IF 0 < NUM_GROUPS[p][lvl[p]] THEN "malloc_LVL_CHILD_DONE_lg"
                          ELSE "malloc_LVL_BCAST_TOKEN_l")
         /\ LVL_CHILD_DONE' = [LVL_CHILD_DONE EXCEPT ![p][lvl[p]] =
                IF ok THEN Array(NUM_GROUPS[p][lvl[p]], "NULL") ELSE @]
         /\ grp' = [grp EXCEPT ![p] = IF ok THEN 0 ELSE @]
    /\ UNCHANGED <<heldVars, dynVars, lvl, idx, planVars, locVars, starVars,
                   LVL_BUF, LVL_BCAST_TOKEN, netVars>>

\* line 172
malloc_LVL_CHILD_DONE_lg(p) ==
    /\ pc[p] = "malloc_LVL_CHILD_DONE_lg"
    /\ \E ok \in BOOLEAN :
         /\ Malloc(p, ok, IF 0 < cap(lvl[p]) THEN "zero_LVL_CHILD_DONE"
                          ELSE IF grp[p] + 1 < NUM_GROUPS[p][lvl[p]]
                               THEN "malloc_LVL_CHILD_DONE_lg"
                               ELSE "malloc_LVL_BCAST_TOKEN_l")
         /\ LVL_CHILD_DONE' = [LVL_CHILD_DONE EXCEPT ![p][lvl[p]][grp[p]] =
                IF ok THEN "LVL_BUF" ELSE @]
         /\ LVL_BUF' = [LVL_BUF EXCEPT ![p] =
                IF ok THEN (<<lvl[p], grp[p]>> :> Array(cap(lvl[p]), UNINIT)) @@ @
                      ELSE @]
         /\ idx' = [idx EXCEPT ![p] = IF ok THEN 0 ELSE @]
         /\ grp' = [grp EXCEPT ![p] = IF ok /\ ~(0 < cap(lvl[p])) THEN @ + 1 ELSE @]
    /\ UNCHANGED <<heldVars, dynVars, lvl, planVars, locVars, starVars,
                   LVL_BCAST_TOKEN, netVars>>

\* line 174: LVL_CHILD_DONE[l][g][i] = 0, through the pointer set at line 172
zero_LVL_CHILD_DONE(p) ==
    /\ pc[p] = "zero_LVL_CHILD_DONE"
    /\ LVL_BUF' = [LVL_BUF EXCEPT ![p][<<lvl[p], grp[p]>>][idx[p]] = NOT_DONE]
    /\ IF idx[p] + 1 < cap(lvl[p])
       THEN /\ idx' = [idx EXCEPT ![p] = @ + 1]
            /\ UNCHANGED <<grp, pc>>
       ELSE /\ grp' = [grp EXCEPT ![p] = @ + 1]
            /\ UNCHANGED idx
            /\ Goto(p, IF grp[p] + 1 < NUM_GROUPS[p][lvl[p]]
                       THEN "malloc_LVL_CHILD_DONE_lg"
                       ELSE "malloc_LVL_BCAST_TOKEN_l")
    /\ UNCHANGED <<heldVars, dynVars, exit_status, lvl, mallocs, planVars, locVars, starVars,
                   LVL_CHILD_DONE, LVL_BCAST_TOKEN, netVars>>

\* lines 185-190, all iterations: LVL_CHILD_DONE[0][g] = GROUP_PE_DONE[g]
\* (stores to p's own pointer table, which no other PE reads)
alias(tab, ng0) ==
    [tab EXCEPT ![0] = [g \in DOMAIN tab[0] |-> IF g < ng0 THEN "GROUP_PE_DONE" ELSE tab[0][g]]]

\* after the token loop of level l: l++ and the loop head of line 164
after_level(p) ==
    IF lvl[p] + 1 < LEVELS[p] THEN "malloc_LVL_CHILD_DONE_l" ELSE "rht_local_done"

\* line 178
malloc_LVL_BCAST_TOKEN_l(p) ==
    /\ pc[p] = "malloc_LVL_BCAST_TOKEN_l"
    /\ \E ok \in BOOLEAN :
         /\ Malloc(p, ok, IF 0 < NUM_GROUPS[p][lvl[p]] THEN "zero_LVL_BCAST_TOKEN"
                          ELSE after_level(p))
         /\ LVL_BCAST_TOKEN' = [LVL_BCAST_TOKEN EXCEPT ![p][lvl[p]] =
                IF ok THEN Array(NUM_GROUPS[p][lvl[p]], UNINIT) ELSE @]
         /\ grp' = [grp EXCEPT ![p] = IF ok THEN 0 ELSE @]
         /\ lvl' = [lvl EXCEPT ![p] =
                IF ok /\ ~(0 < NUM_GROUPS[p][lvl[p]]) THEN @ + 1 ELSE @]
         /\ LVL_CHILD_DONE' = [LVL_CHILD_DONE EXCEPT ![p] =
                IF ok /\ ~(0 < NUM_GROUPS[p][lvl[p]]) /\ ~(lvl[p] + 1 < LEVELS[p])
                THEN alias(@, NUM_GROUPS0[p]) ELSE @]
    /\ UNCHANGED <<heldVars, dynVars, idx, planVars, locVars, starVars, LVL_BUF, netVars>>

\* line 180; after the last store of the last level, lines 185-190
zero_LVL_BCAST_TOKEN(p) ==
    /\ pc[p] = "zero_LVL_BCAST_TOKEN"
    /\ LVL_BCAST_TOKEN' = [LVL_BCAST_TOKEN EXCEPT ![p][lvl[p]][grp[p]] = NOT_DONE]
    /\ IF grp[p] + 1 < NUM_GROUPS[p][lvl[p]]
       THEN /\ grp' = [grp EXCEPT ![p] = @ + 1]
            /\ UNCHANGED <<lvl, pc, LVL_CHILD_DONE>>
       ELSE /\ grp' = [grp EXCEPT ![p] = 0]
            /\ lvl' = [lvl EXCEPT ![p] = @ + 1]
            /\ Goto(p, after_level(p))
            /\ LVL_CHILD_DONE' = [LVL_CHILD_DONE EXCEPT ![p] =
                   IF lvl[p] + 1 < LEVELS[p] THEN @ ELSE alias(@, NUM_GROUPS0[p])]
    /\ UNCHANGED <<heldVars, dynVars, exit_status, idx, mallocs, planVars, locVars, starVars,
                   LVL_BUF, netVars>>

(* ---------------- puts, quiet and local stores ------------------------- *)
Put(src, dst, obj, l, g, i) ==
    [src |-> src, dst |-> dst, obj |-> obj, l |-> l, g |-> g, i |-> i]

left_final_barrier(q) ==
    pc[q] \in {"rht_all_clear", "shmem_finalize", "rst_all_clear", "star_shmem_finalize", "done"}

\* shmem_int_p: the put is in flight until the substrate delivers it
shmem_int_p(p, m) ==
    /\ inflight' = inflight \cup {m}
    /\ rma' = rma \cup {<<p, m.dst, left_final_barrier(m.dst)>>}

\* shmem_quiet returns once every put issued by p is complete at its target
shmem_quiet_returns(p) == \A m \in inflight : m.src # p

\* a child mailbox cell of PE q, through the pointer value ptr
child_cell(q, ptr, l, g, i) ==
    IF ptr = "GROUP_PE_DONE" THEN GROUP_PE_DONE[q][g][i]
                             ELSE LVL_BUF[q][<<l, g>>][i]

allocated(q, m) ==
    CASE m.obj = "GROUP_PE_DONE" ->
            /\ m.g \in DOMAIN GROUP_PE_DONE[q]
            /\ m.i \in DOMAIN GROUP_PE_DONE[q][m.g]
      [] m.obj = "LVL_BUF" ->
            /\ <<m.l, m.g>> \in DOMAIN LVL_BUF[q]
            /\ m.i \in DOMAIN LVL_BUF[q][<<m.l, m.g>>]
      [] m.obj = "LVL_BCAST_TOKEN" ->
            /\ m.l \in DOMAIN LVL_BCAST_TOKEN[q]
            /\ m.g \in DOMAIN LVL_BCAST_TOKEN[q][m.l]
      [] m.obj = "ROOT_GROUP_DONE" -> m.g \in DOMAIN ROOT_GROUP_DONE[q]
      [] OTHER -> GLOBAL_TERMINATION_READY[q] # NULL

\* the substrate completes a put at its target: the value -1 lands
Deliver(m) ==
    /\ exit_status = "running"
    /\ m \in inflight
    /\ allocated(m.dst, m)
    /\ inflight' = inflight \ {m}
    /\ wrote' = wrote \cup {<<m.src, m.dst, m.obj, m.l, m.g, m.i>>}
    /\ GROUP_PE_DONE' = IF m.obj = "GROUP_PE_DONE"
                        THEN [GROUP_PE_DONE EXCEPT ![m.dst][m.g][m.i] = DONE]
                        ELSE GROUP_PE_DONE
    /\ LVL_BUF' = IF m.obj = "LVL_BUF"
                  THEN [LVL_BUF EXCEPT ![m.dst][<<m.l, m.g>>][m.i] = DONE]
                  ELSE LVL_BUF
    /\ LVL_BCAST_TOKEN' = IF m.obj = "LVL_BCAST_TOKEN"
                          THEN [LVL_BCAST_TOKEN EXCEPT ![m.dst][m.l][m.g] = DONE]
                          ELSE LVL_BCAST_TOKEN
    /\ ROOT_GROUP_DONE' = IF m.obj = "ROOT_GROUP_DONE"
                          THEN [ROOT_GROUP_DONE EXCEPT ![m.dst][m.g] = DONE]
                          ELSE ROOT_GROUP_DONE
    /\ GLOBAL_TERMINATION_READY' = IF m.obj = "GLOBAL_TERMINATION_READY"
                                   THEN [GLOBAL_TERMINATION_READY EXCEPT ![m.dst] = <<DONE>>]
                                   ELSE GLOBAL_TERMINATION_READY
    /\ UNCHANGED <<heldVars, dynVars, exit_status, pc, regVars, mallocs, planVars, locVars,
                   LVL_CHILD_DONE, rma, agg, stdout>>

(* ---------------- run_hstar_termination (lines 194-326) ---------------- *)
\* mutant: local completion does not record the elapsed time
rht_local_done_untimed(p) ==
    /\ pc[p] = "rht_local_done"
    /\ LOCAL_DONE' = [LOCAL_DONE EXCEPT ![p] = <<DONE>>]
    /\ Goto(p, "rht_leaf_put")
    /\ UNCHANGED <<heldVars, dynVars, exit_status, regVars, mallocs, planVars, ELAPSED_MS,
                   starVars, lvlVars, netVars>>

\* lines 203-204; the elapsed time is a positive number of milliseconds
rht_local_done(p) ==
    /\ pc[p] = "rht_local_done"
    /\ LOCAL_DONE' = [LOCAL_DONE EXCEPT ![p] = <<DONE>>]
    /\ ELAPSED_MS' = [ELAPSED_MS EXCEPT ![p] = <<1>>]
    /\ Goto(p, "rht_leaf_put")
    /\ UNCHANGED <<heldVars, dynVars, exit_status, regVars, mallocs, planVars,
                   starVars, lvlVars, netVars>>

\* lines 199-201 and 207
rht_leaf_put(p) ==
    /\ pc[p] = "rht_leaf_put"
    /\ LET g0   == p \div G_LEAF
           idx0 == p % G_LEAF
           own0 == static_group_owner_pe(G_LEAF, 0, g0)
       IN  shmem_int_p(p, Put(p, own0, LVL_CHILD_DONE[p][0][g0], 0, g0, idx0))
    /\ Goto(p, "rht_leaf_quiet")
    /\ UNCHANGED <<heldVars, dynVars, exit_status, regVars, mallocs, planVars, memVars,
                   wrote, agg, stdout>>

\* g_l and owner_l of lines 214-216 and 279-281
group_of(p, l) == p \div group_span_at_level(G_LEAF, l)
owner_of(p, l) == static_group_owner_pe(G_LEAF, l, group_of(p, l))

\* mutant: the end of the leaf group without the clamp to npes
leaf_end_unclamped(start) == start + G_LEAF

\* lines 222-225 and 302-304: end of the leaf group that starts at start
leaf_end(start) == IF start + G_LEAF > npes THEN npes ELSE start + G_LEAF

\* mutant: the leaf count is one short
fanin_gsize_short(ng, l, g_l, owner_l) ==
    IF l = 0
    THEN leaf_end(owner_l) - owner_l - 1
    ELSE LET groups_below == ng[l - 1]
             first_child  == g_l * K
             gsize == IF first_child + K <= groups_below THEN K
                                                         ELSE groups_below - first_child
         IN  IF gsize < 0 THEN 0 ELSE gsize

\* mutant: the nominal G or K children, tail groups not clamped
fanin_gsize_nominal(ng, l, g_l, owner_l) == IF l = 0 THEN G_LEAF ELSE K

\* lines 220-233: the child count the fan-in waits for
fanin_gsize(ng, l, g_l, owner_l) ==
    IF l = 0
    THEN leaf_end(owner_l) - owner_l
    ELSE LET groups_below == ng[l - 1]
             first_child  == g_l * K
             max_child    == first_child + K
             gsize == IF max_child <= groups_below THEN K
                                                   ELSE groups_below - first_child
         IN  IF gsize < 0 THEN 0 ELSE gsize

\* mutant: the fan-out forwards to the nominal K children
fanout_gsize_nominal(ng, l, g_l) == K

\* lines 289-292: the child count the fan-out forwards to
fanout_gsize(ng, l, g_l) ==
    LET groups_below == ng[l - 1]
        first_child  == g_l * K
        gsize == IF first_child + K <= groups_below THEN K
                                                    ELSE groups_below - first_child
    IN  IF gsize < 0 THEN 0 ELSE gsize

gsize_at(p, l) == fanin_gsize(NUM_GROUPS[p], l, group_of(p, l), owner_of(p, l))

\* The loop heads and owner tests touch no symmetric memory; each action below
\* runs them together with the blocking or remote operation that precedes
\* them.  The operators give the position and the value of l that results.

\* mutant: the fan-out loop does not skip the levels whose group p does not
\* own
fanout_next_all(p, l) ==
    IF l >= 0 THEN [pc |-> "rht_fanout_wait", lvl |-> l]
              ELSE [pc |-> "rht_gate_wait", lvl |-> l]

\* lines 278-283: the fan-out loop from level l down to the next level p owns
RECURSIVE fanout_next(_, _)
fanout_next(p, l) ==
    IF l >= 0
    THEN IF p = owner_of(p, l) THEN [pc |-> "rht_fanout_wait", lvl |-> l]
                               ELSE fanout_next(p, l - 1)
    ELSE [pc |-> "rht_gate_wait", lvl |-> l]

\* line 253: the root test
after_fanin(p) ==
    IF p = ROOT_PE
    THEN [pc |-> IF 0 < npes THEN "rht_aggregate" ELSE "rht_seed", lvl |-> LEVELS[p]]
    ELSE fanout_next(p, LEVELS[p] - 1)

\* lines 211-218 and 236, 241: the fan-in loop from level l up to the next
\* level p owns; after_children is the position after the wait loop of level l
RECURSIVE fanin_next(_, _)
RECURSIVE after_children(_, _)
fanin_next(p, l) ==
    IF l < LEVELS[p]
    THEN IF p = owner_of(p, l)
         THEN IF 0 < gsize_at(p, l) THEN [pc |-> "rht_fanin_wait", lvl |-> l]
                                    ELSE after_children(p, l)
         ELSE fanin_next(p, l + 1)
    ELSE after_fanin(p)

after_children(p, l) ==
    IF l + 1 < LEVELS[p] THEN [pc |-> "rht_fanin_notify", lvl |-> l]
                         ELSE fanin_next(p, l + 1)

Continue(p, n) ==
    /\ pc' = [pc EXCEPT ![p] = n.pc]
    /\ lvl' = [lvl EXCEPT ![p] = n.lvl]
    /\ idx' = [idx EXCEPT ![p] = 0]

\* line 208, then the fan-in loop up to its first wait
rht_leaf_quiet(p) ==
    /\ pc[p] = "rht_leaf_quiet"
    /\ shmem_quiet_returns(p)
    /\ Continue(p, fanin_next(p, 0))
    /\ UNCHANGED <<heldVars, dynVars, exit_status, grp, mallocs, planVars, memVars, netVars>>

\* lines 236-238: shmem_int_wait_until(&LVL_CHILD_DONE[l][g_l][i], EQ, -1)
rht_fanin_wait(p) ==
    /\ pc[p] = "rht_fanin_wait"
    /\ LET l == lvl[p]  g_l == group_of(p, l)
       IN  child_cell(p, LVL_CHILD_DONE[p][l][g_l], l, g_l, idx[p]) = DONE
    /\ IF idx[p] + 1 < gsize_at(p, lvl[p])
       THEN /\ idx' = [idx EXCEPT ![p] = @ + 1]
            /\ UNCHANGED <<pc, lvl>>
       ELSE Continue(p, after_children(p, lvl[p]))
    /\ UNCHANGED <<heldVars, dynVars, exit_status, grp, mallocs, planVars, memVars, netVars>>

\* mutant: every leaf owner reports into slot 0 of its parent's mailbox
rht_fanin_notify_slot0(p) ==
    /\ pc[p] = "rht_fanin_notify"
    /\ LET parent_l     == lvl[p] + 1
           g_l          == group_of(p, lvl[p])
           parent_g     == g_l \div K
           parent_owner == static_group_owner_pe(G_LEAF, parent_l, parent_g)
       IN  shmem_int_p(p, Put(p, parent_owner, LVL_CHILD_DONE[p][parent_l][parent_g],
                              parent_l, parent_g, 0))
    /\ Goto(p, "rht_fanin_quiet")
    /\ UNCHANGED <<heldVars, dynVars, exit_status, regVars, mallocs, planVars, memVars,
                   wrote, agg, stdout>>

\* lines 241-246
rht_fanin_notify(p) ==
    /\ pc[p] = "rht_fanin_notify"
    /\ LET parent_l     == lvl[p] + 1
           g_l          == group_of(p, lvl[p])
           parent_g     == g_l \div K
           parent_owner == static_group_owner_pe(G_LEAF, parent_l, parent_g)
           my_child_idx == g_l % K
       IN  shmem_int_p(p, Put(p, parent_owner, LVL_CHILD_DONE[p][parent_l][parent_g],
                              parent_l, parent_g, my_child_idx))
    /\ Goto(p, "rht_fanin_quiet")
    /\ UNCHANGED <<heldVars, dynVars, exit_status, regVars, mallocs, planVars, memVars,
                   wrote, agg, stdout>>

\* line 247, then l++ and the rest of the fan-in loop
rht_fanin_quiet(p) ==
    /\ pc[p] = "rht_fanin_quiet"
    /\ shmem_quiet_returns(p)
    /\ Continue(p, fanin_next(p, lvl[p] + 1))
    /\ UNCHANGED <<heldVars, dynVars, exit_status, grp, mallocs, planVars, memVars, netVars>>

\* lines 260-266: one iteration, val read locally or with shmem_double_g;
\* after the last one the aggregate line is printed (lines 267-270)
rht_aggregate(p) ==
    /\ pc[p] = "rht_aggregate"
    /\ LET pe   == idx[p]
           val  == ELAPSED_MS[pe][1]
           mm   == IF pe = 0 THEN [agg EXCEPT !.minv = val, !.maxv = val] ELSE agg
           minv == IF val < mm.minv THEN val ELSE mm.minv
           maxv == IF val > mm.maxv THEN val ELSE mm.maxv
           new  == [sum |-> agg.sum + val, minv |-> minv, maxv |-> maxv]
       IN  /\ agg' = new
           /\ rma' = IF pe = p THEN rma
                     ELSE rma \cup {<<p, pe, left_final_barrier(pe)>>}
           /\ stdout' = IF idx[p] + 1 < npes THEN stdout
                        ELSE Append(stdout, [line |-> "ELAPSED_MS", npes |-> npes,
                                             min |-> new.minv, sum |-> new.sum,
                                             max |-> new.maxv])
    /\ idx' = [idx EXCEPT ![p] = @ + 1]
    /\ Goto(p, IF idx[p] + 1 < npes THEN "rht_aggregate" ELSE "rht_seed")
    /\ UNCHANGED <<heldVars, dynVars, exit_status, lvl, grp, mallocs, planVars, memVars,
                   inflight, wrote>>

\* line 273: LVL_BCAST_TOKEN[top_l][top_g] = -1, then the fan-out loop from
\* LEVELS - 1 down to its first wait
rht_seed(p) ==
    /\ pc[p] = "rht_seed"
    /\ LET top_l == LEVELS[p] - 1
           top_g == 0
       IN  /\ LVL_BCAST_TOKEN' = [LVL_BCAST_TOKEN EXCEPT ![p][top_l][top_g] = DONE]
           /\ wrote' = wrote \cup {<<p, p, "LVL_BCAST_TOKEN", top_l, top_g, 0>>}
    /\ Continue(p, fanout_next(p, LEVELS[p] - 1))
    /\ UNCHANGED <<heldVars, dynVars, exit_status, grp, mallocs, planVars, locVars, starVars,
                   LVL_CHILD_DONE, LVL_BUF, inflight, rma, agg, stdout>>

\* mutant: the owner does not wait for its token before it fans out
rht_fanout_wait_skipped(p) ==
    /\ pc[p] = "rht_fanout_wait"
    /\ LET l == lvl[p]  g_l == group_of(p, l)  owner_l == owner_of(p, l)
       IN  IF l > 0
           THEN /\ idx' = [idx EXCEPT ![p] = 0]
                /\ Goto(p, IF 0 < fanout_gsize(NUM_GROUPS[p], l, g_l)
                           THEN "rht_forward" ELSE "rht_fanout_quiet")
           ELSE /\ idx' = [idx EXCEPT ![p] = owner_l]
                /\ Goto(p, IF owner_l < leaf_end(owner_l)
                           THEN "rht_set_gates" ELSE "rht_fanout_quiet")
    /\ UNCHANGED <<heldVars, dynVars, exit_status, lvl, grp, mallocs, planVars, memVars, netVars>>

\* line 285: shmem_int_wait_until(&LVL_BCAST_TOKEN[l][g_l], EQ, -1), and the
\* loop heads of lines 294 and 305
rht_fanout_wait(p) ==
    /\ pc[p] = "rht_fanout_wait"
    /\ LET l == lvl[p]  g_l == group_of(p, l)  owner_l == owner_of(p, l)
       IN  /\ LVL_BCAST_TOKEN[p][l][g_l] = DONE
           /\ IF l > 0
              THEN /\ idx' = [idx EXCEPT ![p] = 0]
                   /\ Goto(p, IF 0 < fanout_gsize(NUM_GROUPS[p], l, g_l)
                              THEN "rht_forward" ELSE "rht_fanout_quiet")
              ELSE /\ idx' = [idx EXCEPT ![p] = owner_l]
                   /\ Goto(p, IF owner_l < leaf_end(owner_l)
                              THEN "rht_set_gates" ELSE "rht_fanout_quiet")
    /\ UNCHANGED <<heldVars, dynVars, exit_status, lvl, grp, mallocs, planVars, memVars, netVars>>

\* lines 294-298: one iteration, c = idx
rht_forward(p) ==
    /\ pc[p] = "rht_forward"
    /\ LET l == lvl[p]  g_l == group_of(p, l)
           first_child == g_l * K
           child_g     == first_child + idx[p]
           child_owner == static_group_owner_pe(G_LEAF, l - 1, child_g)
       IN  /\ shmem_int_p(p, Put(p, child_owner, "LVL_BCAST_TOKEN", l - 1, child_g, 0))
           /\ Goto(p, IF idx[p] + 1 < fanout_gsize(NUM_GROUPS[p], l, g_l)
                      THEN "rht_forward" ELSE "rht_fanout_quiet")
    /\ idx' = [idx EXCEPT ![p] = @ + 1]
    /\ UNCHANGED <<heldVars, dynVars, exit_status, lvl, grp, mallocs, planVars, memVars,
                   wrote, agg, stdout>>

\* mutant: a leaf owner sets the gates of every PE from its own up to the last
rht_set_gates_to_last(p) ==
    /\ pc[p] = "rht_set_gates"
    /\ LET pe == idx[p]  owner_l == owner_of(p, lvl[p])
       IN  /\ IF pe = owner_l
              THEN /\ GLOBAL_TERMINATION_READY' =
                          [GLOBAL_TERMINATION_READY EXCEPT ![p] = <<DONE>>]
                   /\ wrote' = wrote \cup {<<p, p, "GLOBAL_TERMINATION_READY", 0, 0, 0>>}
                   /\ UNCHANGED <<inflight, rma>>
              ELSE /\ shmem_int_p(p, Put(p, pe, "GLOBAL_TERMINATION_READY", 0, 0, 0))
                   /\ UNCHANGED <<GLOBAL_TERMINATION_READY, wrote>>
           /\ Goto(p, IF pe + 1 < npes THEN "rht_set_gates" ELSE "rht_fanout_quiet")
    /\ idx' = [idx EXCEPT ![p] = @ + 1]
    /\ UNCHANGED <<heldVars, dynVars, exit_status, lvl, grp, mallocs, planVars, locVars,
                   GROUP_PE_DONE, ROOT_GROUP_DONE, lvlVars, agg, stdout>>

\* lines 305-311: one iteration, pe = idx
rht_set_gates(p) ==
    /\ pc[p] = "rht_set_gates"
    /\ LET pe == idx[p]  owner_l == owner_of(p, lvl[p])
       IN  /\ IF pe = owner_l
              THEN /\ GLOBAL_TERMINATION_READY' =
                          [GLOBAL_TERMINATION_READY EXCEPT ![p] = <<DONE>>]
                   /\ wrote' = wrote \cup {<<p, p, "GLOBAL_TERMINATION_READY", 0, 0, 0>>}
                   /\ UNCHANGED <<inflight, rma>>
              ELSE /\ shmem_int_p(p, Put(p, pe, "GLOBAL_TERMINATION_READY", 0, 0, 0))
                   /\ UNCHANGED <<GLOBAL_TERMINATION_READY, wrote>>
           /\ Goto(p, IF pe + 1 < leaf_end(owner_l)
                      THEN "rht_set_gates" ELSE "rht_fanout_quiet")
    /\ idx' = [idx EXCEPT ![p] = @ + 1]
    /\ UNCHANGED <<heldVars, dynVars, exit_status, lvl, grp, mallocs, planVars, locVars,
                   GROUP_PE_DONE, ROOT_GROUP_DONE, lvlVars, agg, stdout>>

\* lines 299 and 312, then l-- and the rest of the fan-out loop
rht_fanout_quiet(p) ==
    /\ pc[p] = "rht_fanout_quiet"
    /\ shmem_quiet_returns(p)
    /\ Continue(p, fanout_next(p, lvl[p] - 1))
    /\ UNCHANGED <<heldVars, dynVars, exit_status, grp, mallocs, planVars, memVars, netVars>>

\* mutant: the gate is consumed (reset to 0) once it has been observed
rht_gate_wait_reset(p) ==
    /\ pc[p] = "rht_gate_wait"
    /\ GLOBAL_TERMINATION_READY[p][1] = DONE
    /\ GLOBAL_TERMINATION_READY' = [GLOBAL_TERMINATION_READY EXCEPT ![p] = <<NOT_DONE>>]
    /\ Goto(p, "rht_barrier")
    /\ UNCHANGED <<heldVars, dynVars, exit_status, regVars, mallocs, planVars, locVars,
                   GROUP_PE_DONE, ROOT_GROUP_DONE, lvlVars, netVars>>

\* line 318: shmem_int_wait_until(GLOBAL_TERMINATION_READY, EQ, -1)
rht_gate_wait(p) ==
    /\ pc[p] = "rht_gate_wait"
    /\ GLOBAL_TERMINATION_READY[p][1] = DONE
    /\ Goto(p, "rht_barrier")
    /\ UNCHANGED <<heldVars, dynVars, exit_status, regVars, mallocs, planVars, memVars, netVars>>

\* line 319: p enters shmem_barrier_all
rht_barrier(p) ==
    /\ pc[p] = "rht_barrier"
    /\ shmem_quiet_returns(p)
    /\ Goto(p, "rht_barrier_wait")
    /\ UNCHANGED <<heldVars, dynVars, exit_status, regVars, mallocs, planVars, memVars, netVars>>

\* mutant: the barrier lets a PE through without waiting for the others
shmem_barrier_all_returns_alone == TRUE

\* shmem_barrier_all returns on p once every PE has entered it
shmem_barrier_all_returns ==
    \A q \in PEs : pc[q] \in {"rht_barrier_wait", "rst_barrier_wait"} \/ left_final_barrier(q)

rht_barrier_wait(p) ==
    /\ pc[p] = "rht_barrier_wait"
    /\ shmem_barrier_all_returns
    /\ Goto(p, "rht_all_clear")
    /\ UNCHANGED <<heldVars, dynVars, exit_status, regVars, mallocs, planVars, memVars, netVars>>

\* lines 321-325
rht_all_clear(p) ==
    /\ pc[p] = "rht_all_clear"
    /\ stdout' = IF p = ROOT_PE
                 THEN Append(stdout, [line |-> "ALL_CLEAR", npes |-> npes])
                 ELSE stdout
    /\ Goto(p, "shmem_finalize")
    /\ UNCHANGED <<heldVars, dynVars, exit_status, regVars, mallocs, planVars, memVars,
                   inflight, wrote, rma, agg>>

\* main, lines 362-363: shmem_finalize releases p's symmetric memory; return 0
shmem_finalize(p) ==
    /\ pc[p] = "shmem_finalize"
    /\ Goto(p, "done")
    /\ UNCHANGED <<heldVars, dynVars, exit_status, regVars, mallocs, planVars, memVars, netVars>>

Next ==
    \/ \E p \in PEs : main_malloc_LOCAL_DONE(p)
    \/ \E p \in PEs : main_malloc_ELAPSED_MS(p)
    \/ \E p \in PEs : main_init_LOCAL_DONE(p)
    \/ \E p \in PEs : main_init_ELAPSED_MS(p)
    \/ \E p \in PEs : compute_levels_and_groups(p)
    \/ \E p \in PEs : malloc_GROUP_PE_DONE(p)
    \/ \E p \in PEs : malloc_GROUP_PE_DONE_g(p)
    \/ \E p \in PEs : zero_GROUP_PE_DONE(p)
    \/ \E p \in PEs : malloc_ROOT_GROUP_DONE(p)
    \/ \E p \in PEs : zero_ROOT_GROUP_DONE(p)
    \/ \E p \in PEs : malloc_GLOBAL_TERMINATION_READY(p)
    \/ \E p \in PEs : zero_GLOBAL_TERMINATION_READY(p)
    \/ \E p \in PEs : malloc_LVL_CHILD_DONE(p)
    \/ \E p \in PEs : malloc_LVL_BCAST_TOKEN(p)
    \/ \E p \in PEs : malloc_LVL_CHILD_DONE_l(p)
    \/ \E p \in PEs : malloc_LVL_CHILD_DONE_lg(p)
    \/ \E p \in PEs : zero_LVL_CHILD_DONE(p)
    \/ \E p \in PEs : malloc_LVL_BCAST_TOKEN_l(p)
    \/ \E p \in PEs : zero_LVL_BCAST_TOKEN(p)
    \/ \E p \in PEs : rht_local_done(p)
    \/ \E p \in PEs : rht_leaf_put(p)
    \/ \E p \in PEs : rht_leaf_quiet(p)
    \/ \E p \in PEs : rht_fanin_wait(p)
    \/ \E p \in PEs : rht_fanin_notify(p)
    \/ \E p \in PEs : rht_fanin_quiet(p)
    \/ \E p \in PEs : rht_aggregate(p)
    \/ \E p \in PEs : rht_seed(p)
    \/ \E p \in PEs : rht_fanout_wait(p)
    \/ \E p \in PEs : rht_forward(p)
    \/ \E p \in PEs : rht_set_gates(p)
    \/ \E p \in PEs : rht_fanout_quiet(p)
    \/ \E p \in PEs : rht_gate_wait(p)
    \/ \E p \in PEs : rht_barrier(p)
    \/ \E p \in PEs : rht_barrier_wait(p)
    \/ \E p \in PEs : rht_all_clear(p)
    \/ \E p \in PEs : shmem_finalize(p)
    \/ \E m \in inflight : Deliver(m)

Spec == Init /\ [][Next]_vars

(* ---------------- fairness: every PE runs, every put is delivered ------ *)
PE(p) ==
    /\ p \in PEs
    /\ \/ main_malloc_LOCAL_DONE(p) \/ main_malloc_ELAPSED_MS(p)
       \/ main_init_LOCAL_DONE(p) \/ main_init_ELAPSED_MS(p)
       \/ compute_levels_and_groups(p)
       \/ malloc_GROUP_PE_DONE(p) \/ malloc_GROUP_PE_DONE_g(p) \/ zero_GROUP_PE_DONE(p)
       \/ malloc_ROOT_GROUP_DONE(p) \/ zero_ROOT_GROUP_DONE(p)
       \/ malloc_GLOBAL_TERMINATION_READY(p) \/ zero_GLOBAL_TERMINATION_READY(p)
       \/ malloc_LVL_CHILD_DONE(p) \/ malloc_LVL_BCAST_TOKEN(p)
       \/ malloc_LVL_CHILD_DONE_l(p) \/ malloc_LVL_CHILD_DONE_lg(p)
       \/ zero_LVL_CHILD_DONE(p)
       \/ malloc_LVL_BCAST_TOKEN_l(p) \/ zero_LVL_BCAST_TOKEN(p)
       \/ rht_local_done(p) \/ rht_leaf_put(p) \/ rht_leaf_quiet(p)
       \/ rht_fanin_wait(p) \/ rht_fanin_notify(p) \/ rht_fanin_quiet(p)
       \/ rht_aggregate(p) \/ rht_seed(p)
       \/ rht_fanout_wait(p) \/ rht_forward(p) \/ rht_set_gates(p)
       \/ rht_fanout_quiet(p)
       \/ rht_gate_wait(p) \/ rht_barrier(p) \/ rht_barrier_wait(p)
       \/ rht_all_clear(p) \/ shmem_finalize(p)

Delivery == \E m \in inflight : Deliver(m)

\* each PE is its own process and the substrate completes every put
Fairness ==
    /\ \A p \in 0 .. MaxN - 1 : WF_vars(PE(p))
    /\ WF_vars(Delivery)

LiveSpec == Spec /\ Fairness

(* ======================= STAR: src/global_done_star.c ================== *)
\* group_span_at_level of global_done_star.c: leaf_size << level
star_group_span_at_level(leaf_size, level) == leaf_size * ipow(2, level)

\* static_group_owner_pe of global_done_star.c: the level is ignored
star_static_group_owner_pe(leaf_size, level, group_idx) ==
    group_idx * star_group_span_at_level(leaf_size, 0)

\* state of main of global_done_star.c after the start barrier (line 199);
\* the program has no branching factor, K keeps one value
StarInit ==
    /\ npes \in 1 .. MaxN
    /\ G_LEAF \in 1 .. MaxG
    /\ K = 2
    /\ pc = [p \in PEs |-> "star_main_malloc_LOCAL_DONE"]
    /\ InitMemory

\* line 203
star_main_malloc_LOCAL_DONE(p) ==
    /\ pc[p] = "star_main_malloc_LOCAL_DONE"
    /\ \E ok \in BOOLEAN :
         /\ shmem_malloc_returns(p)
         /\ mallocs' = [mallocs EXCEPT ![p] = @ + 1]
         /\ LOCAL_DONE' = [LOCAL_DONE EXCEPT ![p] = IF ok THEN <<UNINIT>> ELSE NULL]
    /\ Goto(p, "star_main_malloc_ELAPSED_MS")
    /\ UNCHANGED <<heldVars, dynVars, exit_status, regVars, planVars, ELAPSED_MS,
                   starVars, lvlVars, netVars>>

\* line 204 and the check of line 205
star_main_malloc_ELAPSED_MS(p) ==
    /\ pc[p] = "star_main_malloc_ELAPSED_MS"
    /\ \E ok \in BOOLEAN :
         /\ Malloc(p, ok /\ LOCAL_DONE[p] # NULL, "star_main_init_LOCAL_DONE")
         /\ ELAPSED_MS' = [ELAPSED_MS EXCEPT ![p] = IF ok THEN <<UNINIT>> ELSE NULL]
    /\ UNCHANGED <<heldVars, dynVars, regVars, planVars, LOCAL_DONE,
                   starVars, lvlVars, netVars>>

\* line 207
star_main_init_LOCAL_DONE(p) ==
    /\ pc[p] = "star_main_init_LOCAL_DONE"
    /\ LOCAL_DONE' = [LOCAL_DONE EXCEPT ![p] = <<NOT_DONE>>]
    /\ Goto(p, "star_main_init_ELAPSED_MS")
    /\ UNCHANGED <<heldVars, dynVars, exit_status, regVars, mallocs, planVars, ELAPSED_MS,
                   starVars, lvlVars, netVars>>

\* line 208
star_main_init_ELAPSED_MS(p) ==
    /\ pc[p] = "star_main_init_ELAPSED_MS"
    /\ ELAPSED_MS' = [ELAPSED_MS EXCEPT ![p] = <<0>>]
    /\ Goto(p, "star_malloc_GROUP_PE_DONE")
    /\ UNCHANGED <<heldVars, dynVars, exit_status, regVars, mallocs, planVars, LOCAL_DONE,
                   starVars, lvlVars, netVars>>

(* ---------------- allocate_star_flags (star.c lines 80-102) ------------ *)
\* lines 82 and 85-86, and the loop head of line 87
star_malloc_GROUP_PE_DONE(p) ==
    /\ pc[p] = "star_malloc_GROUP_PE_DONE"
    /\ LET ng0 == ceil_div(npes, G_LEAF)
       IN  /\ NUM_GROUPS0' = [NUM_GROUPS0 EXCEPT ![p] = ng0]
           /\ \E ok \in BOOLEAN :
                /\ Malloc(p, ok, IF 0 < ng0 THEN "star_malloc_GROUP_PE_DONE_g"
                                 ELSE "star_malloc_ROOT_GROUP_DONE")
                /\ GROUP_PE_DONE' = [GROUP_PE_DONE EXCEPT ![p] =
                       IF ok THEN Array(ng0, NULL) ELSE @]
                /\ grp' = [grp EXCEPT ![p] = IF ok THEN 0 ELSE @]
    /\ UNCHANGED <<heldVars, dynVars, lvl, idx, LEVELS, NUM_GROUPS, locVars, ROOT_GROUP_DONE,
                   GLOBAL_TERMINATION_READY, lvlVars, netVars>>

\* lines 88-89
star_malloc_GROUP_PE_DONE_g(p) ==
    /\ pc[p] = "star_malloc_GROUP_PE_DONE_g"
    /\ \E ok \in BOOLEAN :
         /\ Malloc(p, ok, IF 0 < G_LEAF THEN "star_zero_GROUP_PE_DONE"
                          ELSE IF grp[p] + 1 < NUM_GROUPS0[p]
                               THEN "star_malloc_GROUP_PE_DONE_g"
                               ELSE "star_malloc_ROOT_GROUP_DONE")
         /\ GROUP_PE_DONE' = [GROUP_PE_DONE EXCEPT ![p][grp[p]] =
                IF ok THEN Array(G_LEAF, UNINIT) ELSE @]
         /\ idx' = [idx EXCEPT ![p] = IF ok THEN 0 ELSE @]
         /\ grp' = [grp EXCEPT ![p] = IF ok /\ ~(0 < G_LEAF) THEN @ + 1 ELSE @]
    /\ UNCHANGED <<heldVars, dynVars, lvl, planVars, locVars, ROOT_GROUP_DONE,
                   GLOBAL_TERMINATION_READY, lvlVars, netVars>>

\* line 90: GROUP_PE_DONE[g][i] = 0, then i++ (and g++ after the last i)
star_zero_GROUP_PE_DONE(p) ==
    /\ pc[p] = "star_zero_GROUP_PE_DONE"
    /\ GROUP_PE_DONE' = [GROUP_PE_DONE EXCEPT ![p][grp[p]][idx[p]] = NOT_DONE]
    /\ IF idx[p] + 1 < G_LEAF
       THEN /\ idx' = [idx EXCEPT ![p] = @ + 1]
            /\ UNCHANGED <<grp, pc>>
       ELSE /\ grp' = [grp EXCEPT ![p] = @ + 1]
            /\ UNCHANGED idx
            /\ Goto(p, IF grp[p] + 1 < NUM_GROUPS0[p]
                       THEN "star_malloc_GROUP_PE_DONE_g"
                       ELSE "star_malloc_ROOT_GROUP_DONE")
    /\ UNCHANGED <<heldVars, dynVars, exit_status, lvl, mallocs, planVars, locVars,
                   ROOT_GROUP_DONE, GLOBAL_TERMINATION_READY, lvlVars, netVars>>

\* lines 94-95, and the loop head of line 96
star_malloc_ROOT_GROUP_DONE(p) ==
    /\ pc[p] = "star_malloc_ROOT_GROUP_DONE"
    /\ \E ok \in BOOLEAN :
         /\ Malloc(p, ok, IF 0 < NUM_GROUPS0[p] THEN "star_zero_ROOT_GROUP_DONE"
                          ELSE "star_malloc_GLOBAL_TERMINATION_READY")
         /\ ROOT_GROUP_DONE' = [ROOT_GROUP_DONE EXCEPT ![p] =
                IF ok THEN Array(NUM_GROUPS0[p], UNINIT) ELSE @]
         /\ grp' = [grp EXCEPT ![p] = IF ok THEN 0 ELSE @]
    /\ UNCHANGED <<heldVars, dynVars, lvl, idx, planVars, locVars, GROUP_PE_DONE,
                   GLOBAL_TERMINATION_READY, lvlVars, netVars>>

\* line 96
star_zero_ROOT_GROUP_DONE(p) ==
    /\ pc[p] = "star_zero_ROOT_GROUP_DONE"
    /\ ROOT_GROUP_DONE' = [ROOT_GROUP_DONE EXCEPT ![p][grp[p]] = NOT_DONE]
    /\ grp' = [grp EXCEPT ![p] = @ + 1]
    /\ Goto(p, IF grp[p] + 1 < NUM_GROUPS0[p] THEN "star_zero_ROOT_GROUP_DONE"
               ELSE "star_malloc_GLOBAL_TERMINATION_READY")
    /\ UNCHANGED <<heldVars, dynVars, exit_status, lvl, idx, mallocs, planVars, locVars,
                   GROUP_PE_DONE, GLOBAL_TERMINATION_READY, lvlVars, netVars>>

\* lines 99-100
star_malloc_GLOBAL_TERMINATION_READY(p) ==
    /\ pc[p] = "star_malloc_GLOBAL_TERMINATION_READY"
    /\ \E ok \in BOOLEAN :
         /\ Malloc(p, ok, "star_zero_GLOBAL_TERMINATION_READY")
         /\ GLOBAL_TERMINATION_READY' = [GLOBAL_TERMINATION_READY EXCEPT ![p] =
                IF ok THEN <<UNINIT>> ELSE @]
    /\ UNCHANGED <<heldVars, dynVars, regVars, planVars, locVars, GROUP_PE_DONE,
                   ROOT_GROUP_DONE, lvlVars, netVars>>

\* line 101
star_zero_GLOBAL_TERMINATION_READY(p) ==
    /\ pc[p] = "star_zero_GLOBAL_TERMINATION_READY"
    /\ GLOBAL_TERMINATION_READY' = [GLOBAL_TERMINATION_READY EXCEPT ![p] = <<NOT_DONE>>]
    /\ Goto(p, "rst_local_done")
    /\ UNCHANGED <<heldVars, dynVars, exit_status, regVars, mallocs, planVars, locVars,
                   GROUP_PE_DONE, ROOT_GROUP_DONE, lvlVars, netVars>>

(* ---------------- run_star_termination (star.c lines 105-186) ---------- *)
\* lines 118-119
rst_local_done(p) ==
    /\ pc[p] = "rst_local_done"
    /\ LOCAL_DONE' = [LOCAL_DONE EXCEPT ![p] = <<DONE>>]
    /\ ELAPSED_MS' = [ELAPSED_MS EXCEPT ![p] = <<1>>]
    /\ Goto(p, "rst_put")
    /\ UNCHANGED <<heldVars, dynVars, exit_status, regVars, mallocs, planVars,
                   starVars, lvlVars, netVars>>

\* gidx and owner of lines 110 and 114
star_gidx(p) == p \div G_LEAF
star_owner(p) == star_static_group_owner_pe(G_LEAF, 0, star_gidx(p))

\* mutant: the anchor of a tail group waits for G_LEAF members
star_gsize_nominal(p) == G_LEAF

\* mutant: the anchor waits for its own slot only
star_gsize_self(p) == 1

\* lines 127-130
star_gsize(p) ==
    LET start == star_owner(p)
        end   == IF start + G_LEAF > npes THEN npes ELSE start + G_LEAF
    IN  end - start

\* line 121
rst_put(p) ==
    /\ pc[p] = "rst_put"
    /\ shmem_int_p(p, Put(p, star_owner(p), "GROUP_PE_DONE", 0, star_gidx(p), p % G_LEAF))
    /\ Goto(p, "rst_quiet")
    /\ UNCHANGED <<heldVars, dynVars, exit_status, regVars, mallocs, planVars, memVars,
                   wrote, agg, stdout>>

\* line 146 (the root test) and the loop head of line 147
rst_after_anchor(p) ==
    IF p = ROOT_PE
    THEN IF 0 < NUM_GROUPS0[p] THEN "rst_root_wait"
         ELSE IF 0 < npes THEN "rst_aggregate" ELSE "rst_broadcast_quiet"
    ELSE "rst_gate_wait"

\* line 122, then the anchor test of line 125 and the loop head of line 132
rst_quiet(p) ==
    /\ pc[p] = "rst_quiet"
    /\ shmem_quiet_returns(p)
    /\ Goto(p, IF p = star_owner(p)
               THEN IF 0 < star_gsize(p) THEN "rst_wait" ELSE "rst_notify"
               ELSE rst_after_anchor(p))
    /\ idx' = [idx EXCEPT ![p] = 0]
    /\ grp' = [grp EXCEPT ![p] = 0]
    /\ UNCHANGED <<heldVars, dynVars, exit_status, lvl, mallocs, planVars, memVars, netVars>>

\* line 133: shmem_int_wait_until(&GROUP_PE_DONE[gidx][i], EQ, -1)
rst_wait(p) ==
    /\ pc[p] = "rst_wait"
    /\ GROUP_PE_DONE[p][star_gidx(p)][idx[p]] = DONE
    /\ idx' = [idx EXCEPT ![p] = @ + 1]
    /\ Goto(p, IF idx[p] + 1 < star_gsize(p) THEN "rst_wait" ELSE "rst_notify")
    /\ UNCHANGED <<heldVars, dynVars, exit_status, lvl, grp, mallocs, planVars, memVars, netVars>>

\* lines 137-140: a local store at the root, a put from every other anchor
rst_notify(p) ==
    /\ pc[p] = "rst_notify"
    /\ IF star_owner(p) = ROOT_PE
       THEN /\ ROOT_GROUP_DONE' = [ROOT_GROUP_DONE EXCEPT ![p][star_gidx(p)] = DONE]
            /\ wrote' = wrote \cup {<<p, p, "ROOT_GROUP_DONE", 0, star_gidx(p), 0>>}
            /\ Goto(p, rst_after_anchor(p))
            /\ UNCHANGED <<inflight, rma>>
       ELSE /\ shmem_int_p(p, Put(p, ROOT_PE, "ROOT_GROUP_DONE", 0, star_gidx(p), 0))
            /\ Goto(p, "rst_notify_quiet")
            /\ UNCHANGED <<ROOT_GROUP_DONE, wrote>>
    /\ idx' = [idx EXCEPT ![p] = 0]
    /\ UNCHANGED <<heldVars, dynVars, exit_status, lvl, grp, mallocs, planVars, locVars,
                   GROUP_PE_DONE, GLOBAL_TERMINATION_READY, lvlVars, agg, stdout>>

\* line 141, then the root test of line 146
rst_notify_quiet(p) ==
    /\ pc[p] = "rst_notify_quiet"
    /\ shmem_quiet_returns(p)
    /\ Goto(p, rst_after_anchor(p))
    /\ UNCHANGED <<heldVars, dynVars, exit_status, regVars, mallocs, planVars, memVars, netVars>>

\* line 148: shmem_int_wait_until(&ROOT_GROUP_DONE[g], EQ, -1)
rst_root_wait(p) ==
    /\ pc[p] = "rst_root_wait"
    /\ ROOT_GROUP_DONE[p][grp[p]] = DONE
    /\ grp' = [grp EXCEPT ![p] = @ + 1]
    /\ Goto(p, IF grp[p] + 1 < NUM_GROUPS0[p] THEN "rst_root_wait"
               ELSE IF 0 < npes THEN "rst_aggregate" ELSE "rst_broadcast_quiet")
    /\ UNCHANGED <<heldVars, dynVars, exit_status, lvl, idx, mallocs, planVars, memVars, netVars>>

\* lines 153-159: one iteration; after the last one lines 160-163
rst_aggregate(p) ==
    /\ pc[p] = "rst_aggregate"
    /\ LET pe   == idx[p]
           val  == ELAPSED_MS[pe][1]
           mm   == IF pe = 0 THEN [agg EXCEPT !.minv = val, !.maxv = val] ELSE agg
           minv == IF val < mm.minv THEN val ELSE mm.minv
           maxv == IF val > mm.maxv THEN val ELSE mm.maxv
           new  == [sum |-> agg.sum + val, minv |-> minv, maxv |-> maxv]
       IN  /\ agg' = new
           /\ rma' = IF pe = p THEN rma
                     ELSE rma \cup {<<p, pe, left_final_barrier(pe)>>}
           /\ stdout' = IF idx[p] + 1 < npes THEN stdout
                        ELSE Append(stdout, [line |-> "ELAPSED_MS", npes |-> npes,
                                             min |-> new.minv, sum |-> new.sum,
                                             max |-> new.maxv])
    /\ idx' = [idx EXCEPT ![p] = IF idx[p] + 1 < npes THEN @ + 1 ELSE 0]
    /\ Goto(p, IF idx[p] + 1 < npes THEN "rst_aggregate" ELSE "rst_broadcast")
    /\ UNCHANGED <<heldVars, dynVars, exit_status, lvl, grp, mallocs, planVars, memVars,
                   inflight, wrote>>

\* lines 166-172: one iteration, pe = idx
rst_broadcast(p) ==
    /\ pc[p] = "rst_broadcast"
    /\ LET pe == idx[p]
       IN  IF pe = ROOT_PE
           THEN /\ GLOBAL_TERMINATION_READY' =
                       [GLOBAL_TERMINATION_READY EXCEPT ![p] = <<DONE>>]
                /\ wrote' = wrote \cup {<<p, p, "GLOBAL_TERMINATION_READY", 0, 0, 0>>}
                /\ UNCHANGED <<inflight, rma>>
           ELSE /\ shmem_int_p(p, Put(p, pe, "GLOBAL_TERMINATION_READY", 0, 0, 0))
                /\ UNCHANGED <<GLOBAL_TERMINATION_READY, wrote>>
    /\ idx' = [idx EXCEPT ![p] = @ + 1]
    /\ Goto(p, IF idx[p] + 1 < npes THEN "rst_broadcast" ELSE "rst_broadcast_quiet")
    /\ UNCHANGED <<heldVars, dynVars, exit_status, lvl, grp, mallocs, planVars, locVars,
                   GROUP_PE_DONE, ROOT_GROUP_DONE, lvlVars, agg, stdout>>

\* line 173
rst_broadcast_quiet(p) ==
    /\ pc[p] = "rst_broadcast_quiet"
    /\ shmem_quiet_returns(p)
    /\ Goto(p, "rst_gate_wait")
    /\ UNCHANGED <<heldVars, dynVars, exit_status, regVars, mallocs, planVars, memVars, netVars>>

\* line 177: shmem_int_wait_until(GLOBAL_TERMINATION_READY, EQ, -1)
rst_gate_wait(p) ==
    /\ pc[p] = "rst_gate_wait"
    /\ GLOBAL_TERMINATION_READY[p][1] = DONE
    /\ Goto(p, "rst_barrier")
    /\ UNCHANGED <<heldVars, dynVars, exit_status, regVars, mallocs, planVars, memVars, netVars>>

\* line 180: p enters shmem_barrier_all
rst_barrier(p) ==
    /\ pc[p] = "rst_barrier"
    /\ shmem_quiet_returns(p)
    /\ Goto(p, "rst_barrier_wait")
    /\ UNCHANGED <<heldVars, dynVars, exit_status, regVars, mallocs, planVars, memVars, netVars>>

\* line 180: shmem_barrier_all returns
rst_barrier_wait(p) ==
    /\ pc[p] = "rst_barrier_wait"
    /\ shmem_barrier_all_returns
    /\ Goto(p, "rst_all_clear")
    /\ UNCHANGED <<heldVars, dynVars, exit_status, regVars, mallocs, planVars, memVars, netVars>>

\* lines 182-185
rst_all_clear(p) ==
    /\ pc[p] = "rst_all_clear"
    /\ stdout' = IF p = ROOT_PE
                 THEN Append(stdout, [line |-> "ALL_CLEAR", npes |-> npes])
                 ELSE stdout
    /\ Goto(p, "star_shmem_finalize")
    /\ UNCHANGED <<heldVars, dynVars, exit_status, regVars, mallocs, planVars, memVars,
                   inflight, wrote, rma, agg>>

\* main of global_done_star.c, lines 221-222
star_shmem_finalize(p) ==
    /\ pc[p] = "star_shmem_finalize"
    /\ Goto(p, "done")
    /\ UNCHANGED <<heldVars, dynVars, exit_status, regVars, mallocs, planVars, memVars, netVars>>

StarNext ==
    \/ \E p \in PEs : star_main_malloc_LOCAL_DONE(p)
    \/ \E p \in PEs : star_main_malloc_ELAPSED_MS(p)
    \/ \E p \in PEs : star_main_init_LOCAL_DONE(p)
    \/ \E p \in PEs : star_main_init_ELAPSED_MS(p)
    \/ \E p \in PEs : star_malloc_GROUP_PE_DONE(p)
    \/ \E p \in PEs : star_malloc_GROUP_PE_DONE_g(p)
    \/ \E p \in PEs : star_zero_GROUP_PE_DONE(p)
    \/ \E p \in PEs : star_malloc_ROOT_GROUP_DONE(p)
    \/ \E p \in PEs : star_zero_ROOT_GROUP_DONE(p)
    \/ \E p \in PEs : star_malloc_GLOBAL_TERMINATION_READY(p)
    \/ \E p \in PEs : star_zero_GLOBAL_TERMINATION_READY(p)
    \/ \E p \in PEs : rst_local_done(p)
    \/ \E p \in PEs : rst_put(p)
    \/ \E p \in PEs : rst_quiet(p)
    \/ \E p \in PEs : rst_wait(p)
    \/ \E p \in PEs : rst_notify(p)
    \/ \E p \in PEs : rst_notify_quiet(p)
    \/ \E p \in PEs : rst_root_wait(p)
    \/ \E p \in PEs : rst_aggregate(p)
    \/ \E p \in PEs : rst_broadcast(p)
    \/ \E p \in PEs : rst_broadcast_quiet(p)
    \/ \E p \in PEs : rst_gate_wait(p)
    \/ \E p \in PEs : rst_barrier(p)
    \/ \E p \in PEs : rst_barrier_wait(p)
    \/ \E p \in PEs : rst_all_clear(p)
    \/ \E p \in PEs : star_shmem_finalize(p)
    \/ \E m \in inflight : Deliver(m)

StarSpec == StarInit /\ [][StarNext]_vars

\* both programs that end with the barrier-based exit: a run of either one
BarrierExitSpec == (Init \/ StarInit) /\ [][Next \/ StarNext]_vars

(* ======================= properties of H-STAR ========================== *)
\* the topology of the specification, written independently of the code
Min(a, b) == IF a < b THEN a ELSE b
CeilOf(a, b) == CHOOSE m \in 0 .. a : m * b >= a /\ (m - 1) * b < a
RECURSIVE KPow(_)
KPow(l) == IF l = 0 THEN 1 ELSE K * KPow(l - 1)
RECURSIVE GroupsAt(_)
GroupsAt(l) == IF l = 0 THEN CeilOf(npes, G_LEAF) ELSE CeilOf(GroupsAt(l - 1), K)
Owner(l, g) == g * G_LEAF * KPow(l)
MemberCount(l, g) ==
    IF l = 0 THEN Min(G_LEAF, npes - g * G_LEAF) ELSE Min(K, GroupsAt(l - 1) - g * K)
\* the PE that is child i of group g at level l
Child(l, g, i) == IF l = 0 THEN g * G_LEAF + i ELSE Owner(l - 1, g * K + i)
RECURSIVE TopLevel(_)
TopLevel(l) == IF GroupsAt(l) = 1 THEN l ELSE TopLevel(l + 1)

Mailbox == {"GROUP_PE_DONE", "LVL_BUF"}
\* every write of -1 issued so far: <<writer, target, object, l, g, i>>
Writes == wrote \cup {<<m.src, m.dst, m.obj, m.l, m.g, m.i>> : m \in inflight}

Gate(q) == GLOBAL_TERMINATION_READY[q]
GateOpen(q) == Gate(q) = <<DONE>>
\* p has performed its local-completion publish: LOCAL_DONE = -1 and the put
\* of -1 into its level-0 mailbox slot issued
Published(p) ==
    /\ LOCAL_DONE[p] = <<DONE>>
    /\ \E w \in Writes : /\ w[1] = p /\ w[3] \in Mailbox /\ w[4] = 0
                         /\ w[5] = p \div G_LEAF /\ w[6] = p % G_LEAF
AllPublished == \A p \in PEs : Published(p)
AfterGate == {"rht_barrier", "rht_barrier_wait", "rht_all_clear", "shmem_finalize", "done"}

\* C1 (H-STAR safety): in no reachable state is some PE's gate
\* GLOBAL_TERMINATION_READY equal to -1 while some PE has not yet performed
\* its local-completion publish.
C1_Safety == \A q \in PEs : GateOpen(q) => AllPublished

\* every gate of a three-PE, three-level run is open
C1_Witness == npes = 3 /\ G_LEAF = 1 /\ K = 2 /\ \A q \in PEs : GateOpen(q)

AllFinished == \A p \in PEs : pc[p] = "done"

\* C2 (H-STAR completeness without deadlock): under weak fairness of each PE
\* and eventual delivery of puts, once every PE has published, every PE
\* eventually observes its gate == -1 and passes the final barrier; and no
\* reachable state of a running job has every unfinished PE blocked.
C2_Completeness ==
    /\ AllPublished ~> (\A p \in PEs : pc[p] \in AfterGate /\ GateOpen(p))
    /\ AllPublished ~> AllFinished
    /\ [](exit_status = "running" /\ ~AllFinished => ENABLED Next)

\* all PEs of a run with a tail group at both levels have finished
C2_Witness == npes = 3 /\ G_LEAF = 1 /\ K = 2 /\ AllFinished

\* the fan-in wait of p at level l is over
FaninWaited(p, l) ==
    \/ pc[p] \in {"rht_fanin_notify", "rht_fanin_quiet"} /\ lvl[p] = l
    \/ pc[p] = "rht_fanin_wait" /\ lvl[p] > l
    \/ pc[p] \in {"rht_aggregate", "rht_seed", "rht_fanout_wait", "rht_forward",
                  "rht_set_gates", "rht_fanout_quiet", "rht_gate_wait"} \cup AfterGate

\* C3 (H-STAR tail-group correctness): for every level l and group
\* g < groups[l], the owner waits on exactly the slots 0..member_count(l,g)-1
\* of its local mailbox; every write to a mailbox slot comes from an existing
\* child, lands at the owner of the group and has index < member_count(l,g);
\* so every slot an owner has waited on was written, and no other slot is.
C3_TailGroups ==
    /\ \A p \in PEs : pc[p] = "rht_fanin_wait" =>
          /\ p = Owner(lvl[p], p \div (G_LEAF * KPow(lvl[p])))
          /\ idx[p] < MemberCount(lvl[p], p \div (G_LEAF * KPow(lvl[p])))
    /\ \A w \in Writes : w[3] \in Mailbox =>
          LET l == w[4]  g == w[5]  i == w[6]
          IN  /\ l <= TopLevel(0) /\ g < GroupsAt(l)
              /\ w[2] = Owner(l, g)
              /\ i < MemberCount(l, g)
              /\ w[1] = Child(l, g, i) /\ w[1] < npes
              /\ l > 0 => g * K + i < GroupsAt(l - 1)
    /\ \A l \in 0 .. TopLevel(0) : \A g \in 0 .. GroupsAt(l) - 1 :
          Owner(l, g) \in PEs /\ FaninWaited(Owner(l, g), l) =>
             \A i \in 0 .. cap(l) - 1 :
                LET ptr == LVL_CHILD_DONE[Owner(l, g)][l][g]
                IN  /\ ptr = (IF l = 0 THEN "GROUP_PE_DONE" ELSE "LVL_BUF")
                    /\ child_cell(Owner(l, g), ptr, l, g, i)
                          = (IF i < MemberCount(l, g) THEN DONE ELSE NOT_DONE)

\* the owner of a tail leaf group and of a tail level-1 group has finished
\* its waits
C3_Witness ==
    /\ npes = 3 /\ G_LEAF = 1 /\ K = 2
    /\ FaninWaited(2, 1) /\ FaninWaited(0, 2)

\* the PE designated to write -1 into a slot
DesignatedWriter(obj, dst, l, g, i) ==
    CASE obj \in Mailbox -> Child(l, g, i)
      [] obj = "LVL_BCAST_TOKEN" ->
            IF l = TopLevel(0) THEN ROOT_PE ELSE Owner(l + 1, g \div K)
      [] OTHER -> Owner(0, dst \div G_LEAF)

\* C4 (H-STAR single-writer): each child mailbox slot, each broadcast token
\* and each PE's gate receives -1 from at most one writer PE, and that writer
\* is the designated one (child i of group g; the parent owner or the root;
\* the PE's leaf owner).
C4_SingleWriter ==
    \A w \in Writes :
       /\ w[1] = DesignatedWriter(w[3], w[2], w[4], w[5], w[6])
       /\ w[3] # "GLOBAL_TERMINATION_READY" => w[2] = Owner(w[4], w[5])
       /\ \A v \in Writes :
             <<v[2], v[3], v[4], v[5], v[6]>> = <<w[2], w[3], w[4], w[5], w[6]>>
                => v[1] = w[1]

\* mailbox slots, tokens of two levels and gates have all been written
C4_Witness ==
    /\ npes = 3 /\ G_LEAF = 1 /\ K = 2 /\ AllFinished
    /\ \E w \in wrote : w[3] = "LVL_BCAST_TOKEN" /\ w[4] = 0 /\ w[1] # w[2]
    /\ \E w \in wrote : w[3] = "LVL_BUF" /\ w[4] = 2
    /\ \E w \in wrote : w[3] = "GLOBAL_TERMINATION_READY"

\* the cells of every PE that hold -1
DoneCells ==
    {<<"GROUP_PE_DONE", q, 0, g, i>> : <<q, g, i>> \in
        {x \in PEs \X (0 .. MaxN) \X (0 .. MaxG) :
            /\ x[2] \in DOMAIN GROUP_PE_DONE[x[1]]
            /\ x[3] \in DOMAIN GROUP_PE_DONE[x[1]][x[2]]
            /\ GROUP_PE_DONE[x[1]][x[2]][x[3]] = DONE}}
    \cup
    {<<"LVL_BUF", q, lg[1], lg[2], i>> : <<q, lg, i>> \in
        {x \in PEs \X ((0 .. MaxN) \X (0 .. MaxN)) \X (0 .. MaxG + MaxK) :
            /\ x[2] \in DOMAIN LVL_BUF[x[1]]
            /\ x[3] \in DOMAIN LVL_BUF[x[1]][x[2]]
            /\ LVL_BUF[x[1]][x[2]][x[3]] = DONE}}
    \cup
    {<<"LVL_BCAST_TOKEN", q, l, g, 0>> : <<q, l, g>> \in
        {x \in PEs \X (0 .. MaxN) \X (0 .. MaxN) :
            /\ x[2] \in DOMAIN LVL_BCAST_TOKEN[x[1]]
            /\ x[3] \in DOMAIN LVL_BCAST_TOKEN[x[1]][x[2]]
            /\ LVL_BCAST_TOKEN[x[1]][x[2]][x[3]] = DONE}}
    \cup
    {<<"GLOBAL_TERMINATION_READY", q, 0, 0, 0>> : q \in {x \in PEs : GateOpen(x)}}

\* C5 (H-STAR monotonicity): once a mailbox slot, broadcast token or gate
\* holds -1 it holds -1 in every later state of the run: no step, the
\* target's own zero-initialisation included, resets it.
C5_Monotonic == [][DoneCells \subseteq DoneCells']_vars

\* every PE has re-read its gate after the final barrier, and mailbox slots
\* and tokens were set
C5_Witness ==
    /\ npes = 3 /\ G_LEAF = 1 /\ K = 2 /\ AllFinished
    /\ Cardinality(DoneCells) > 2 * npes

(* =============== barrier-based exit of H-STAR and STAR ================= *)
StarAfterGate == {"rst_barrier", "rst_barrier_wait", "rst_all_clear",
                  "star_shmem_finalize", "done"}
\* q's wait on its own gate has returned: q observed the gate equal to -1
ObservedGate(q) == pc[q] \in AfterGate \cup StarAfterGate /\ GateOpen(q)
\* the run is one of global_done_star.c: only it writes ROOT_GROUP_DONE
StarRun == \E w \in Writes : w[3] = "ROOT_GROUP_DONE"

\* C6 (barrier-based exit, H-STAR and STAR): no PE has returned from the
\* final shmem_barrier_all (or finalized) unless every PE has observed its own
\* gate == -1; and no remote put or get is issued to, or still in flight
\* towards, a PE that has already passed that final barrier.
C6_BarrierExit ==
    /\ \A p \in PEs : left_final_barrier(p) => \A q \in PEs : ObservedGate(q)
    /\ \A r \in rma : ~r[3]
    /\ \A m \in inflight : ~left_final_barrier(m.dst)

\* a STAR run with two anchors: the root has read every ELAPSED_MS, broadcast
\* the gate, and every PE has finalized
C6_Witness ==
    /\ npes = 3 /\ G_LEAF = 2 /\ AllFinished /\ StarRun
    /\ \E r \in rma : r[1] = ROOT_PE /\ r[2] = 2
    /\ \E w \in wrote : w[3] = "ROOT_GROUP_DONE" /\ w[1] = 2

(* ===================== the topology planner alone ====================== *)
\* state of main after line 349 for any N, G and K: LOCAL_DONE and ELAPSED_MS
\* allocated and zeroed on every PE, nothing else allocated
PlanInit ==
    /\ npes \in 1 .. PlanMaxN
    /\ environ = NULL
    /\ MpiIdle
    /\ DynInitMemory
    /\ G_LEAF \in 1 .. PlanMaxG
    /\ K \in 2 .. PlanMaxK
    /\ pc = [p \in PEs |-> "compute_levels_and_groups"]
    /\ exit_status = "running"
    /\ mallocs = [p \in PEs |-> 2]
    /\ lvl = [p \in PEs |-> 0]
    /\ grp = [p \in PEs |-> 0]
    /\ idx = [p \in PEs |-> 0]
    /\ LEVELS = [p \in PEs |-> 1]
    /\ NUM_GROUPS = [p \in PEs |-> NULL]
    /\ NUM_GROUPS0 = [p \in PEs |-> 0]
    /\ LOCAL_DONE = [p \in PEs |-> <<NOT_DONE>>]
    /\ ELAPSED_MS = [p \in PEs |-> <<0>>]
    /\ GROUP_PE_DONE = [p \in PEs |-> NULL]
    /\ ROOT_GROUP_DONE = [p \in PEs |-> NULL]
    /\ GLOBAL_TERMINATION_READY = [p \in PEs |-> NULL]
    /\ LVL_CHILD_DONE = [p \in PEs |-> NULL]
    /\ LVL_BUF = [p \in PEs |-> NULL]
    /\ LVL_BCAST_TOKEN = [p \in PEs |-> NULL]
    /\ inflight = {}
    /\ wrote = {}
    /\ rma = {}
    /\ agg = [sum |-> 0, minv |-> 0, maxv |-> 0]
    /\ stdout = << >>

\* every PE computes the same plan from the same N, G and K: the root's call
PlanNext == \E p \in {ROOT_PE} : compute_levels_and_groups(p)

PlanSpec == PlanInit /\ [][PlanNext]_vars

Planned(p) == NUM_GROUPS[p] # NULL

\* C7 (topology planner): compute_levels_and_groups yields
\* NUM_GROUPS[0] = ceil(N/G), NUM_GROUPS[l] = ceil(NUM_GROUPS[l-1]/K) for
\* 1 <= l < LEVELS, exactly one group at level LEVELS-1 and more than one at
\* every level below it (LEVELS is the smallest such count), and LEVELS = 1
\* when N <= G.
C7_Planner ==
    \A p \in PEs : Planned(p) =>
       LET L == LEVELS[p]  ng == NUM_GROUPS[p]
       IN  /\ L >= 1 /\ DOMAIN ng = 0 .. L - 1
           /\ ng[0] = CeilOf(npes, G_LEAF)
           /\ NUM_GROUPS0[p] = ng[0]
           /\ \A l \in 1 .. L - 1 : ng[l] = CeilOf(ng[l - 1], K)
           /\ ng[L - 1] = 1
           /\ \A l \in 0 .. L - 2 : ng[l] > 1
           /\ L = TopLevel(0) + 1
           /\ npes <= G_LEAF => L = 1

\* a plan of four levels with a tail group at every level: 70 PEs in groups
\* of 3 under branching factor 3 (24, 8, 3 and 1 groups)
C7_Witness ==
    /\ npes = PlanMaxN /\ G_LEAF = 3 /\ K = 3 /\ Planned(ROOT_PE)
    /\ LEVELS[ROOT_PE] = 4 /\ NUM_GROUPS[ROOT_PE][2] = 3

\* C10 (ownership canonicality): for every level l < LEVELS and every group
\* g < NUM_GROUPS[l], static_group_owner_pe returns g*G*K^l; that PE exists
\* (id < N); it is the smallest PE id of the group; and exactly one PE of the
\* job finds me == owner_l for (l, g).
C10_OwnerCanonical ==
    \A p \in PEs : Planned(p) =>
       \A l \in 0 .. LEVELS[p] - 1 : \A g \in 0 .. NUM_GROUPS[p][l] - 1 :
          LET o       == static_group_owner_pe(G_LEAF, l, g)
              members == {q \in PEs : q \div (G_LEAF * KPow(l)) = g}
          IN  /\ o = g * G_LEAF * KPow(l)
              /\ o < npes
              /\ o \in members /\ \A q \in members : o <= q
              /\ Cardinality({q \in PEs : group_of(q, l) = g /\ q = owner_of(q, l)}) = 1

\* a plan of three levels or more whose last leaf group is a tail group
C10_Witness ==
    /\ Planned(ROOT_PE) /\ LEVELS[ROOT_PE] >= 3
    /\ npes % G_LEAF # 0 /\ NUM_GROUPS[ROOT_PE][0] % K # 0

(* ============ the two H-STAR scenarios of the specification ============ *)
\* the number of shmem_malloc calls of main and allocate_star_flags: lines
\* 344, 345, 126, 141, 144 (per leaf group), 150, 155, 160, 161 and, per
\* level, 169, 172 (per group) and 178
RECURSIVE level_mallocs(_, _)
level_mallocs(ng, l) ==
    IF l < 0 THEN 0 ELSE 2 + ng[l] + level_mallocs(ng, l - 1)
malloc_calls(ng, levels) == 8 + ng[0] + level_mallocs(ng, levels - 1)

\* The state in which allocate_star_flags has returned on every PE and no PE
\* has started run_hstar_termination: every flag allocated and zero, the
\* level-0 mailbox pointers aliased to GROUP_PE_DONE, the loop variables as
\* the allocation loops leave them.
Allocated ==
    LET L  == compute_LEVELS(npes)
        ng == compute_NUM_GROUPS(npes, L)
    IN  /\ pc = [p \in PEs |-> "rht_local_done"]
        /\ DynInitMemory
        /\ environ = NULL
        /\ MpiIdle
        /\ exit_status = "running"
        /\ mallocs = [p \in PEs |-> malloc_calls(ng, L)]
        /\ lvl = [p \in PEs |-> L]
        /\ grp = [p \in PEs |-> 0]
        /\ idx = [p \in PEs |-> cap(L - 1) - 1]
        /\ LEVELS = [p \in PEs |-> L]
        /\ NUM_GROUPS = [p \in PEs |-> ng]
        /\ NUM_GROUPS0 = [p \in PEs |-> ng[0]]
        /\ LOCAL_DONE = [p \in PEs |-> <<NOT_DONE>>]
        /\ ELAPSED_MS = [p \in PEs |-> <<0>>]
        /\ GROUP_PE_DONE = [p \in PEs |-> Array(ng[0], Array(G_LEAF, NOT_DONE))]
        /\ ROOT_GROUP_DONE = [p \in PEs |-> Array(ng[0], NOT_DONE)]
        /\ GLOBAL_TERMINATION_READY = [p \in PEs |-> <<NOT_DONE>>]
        /\ LVL_CHILD_DONE = [p \in PEs |-> [l \in 0 .. L - 1 |->
               Array(ng[l], IF l = 0 THEN "GROUP_PE_DONE" ELSE "LVL_BUF")]]
        /\ LVL_BUF = [p \in PEs |->
               [lg \in UNION {{<<l, g>> : g \in 0 .. ng[l] - 1} : l \in 0 .. L - 1}
                   |-> Array(cap(lg[1]), NOT_DONE)]]
        /\ LVL_BCAST_TOKEN = [p \in PEs |-> [l \in 0 .. L - 1 |-> Array(ng[l], NOT_DONE)]]
        /\ inflight = {}
        /\ wrote = {}
        /\ rma = {}
        /\ agg = [sum |-> 0, minv |-> 0, maxv |-> 0]
        /\ stdout = << >>

\* the allocation steps of main and allocate_star_flags, in any interleaving,
\* reach exactly that state (an invariant of Spec)
AllocationReachesAllocated ==
    (\A p \in PEs : pc[p] = "rht_local_done") => Allocated

\* 70 PEs with GLOBAL_GROUP_SIZE = 8 and GLOBAL_BRANCH_K = 8
Scenario70Init == npes = 70 /\ G_LEAF = 8 /\ K = 8 /\ Allocated

\* 64 PEs with GLOBAL_GROUP_SIZE = 8 and GLOBAL_BRANCH_K = 8
Scenario64Init == npes = 64 /\ G_LEAF = 8 /\ K = 8 /\ Allocated

\* q cannot take a step: it is inside a quiet, a wait or the barrier whose
\* condition does not hold, or it has returned from main
Blocked(q) ==
    CASE pc[q] \in {"rht_leaf_quiet", "rht_fanin_quiet", "rht_fanout_quiet",
                    "rht_barrier"} -> ~shmem_quiet_returns(q)
      [] pc[q] = "rht_fanin_wait" ->
            child_cell(q, LVL_CHILD_DONE[q][lvl[q]][group_of(q, lvl[q])],
                       lvl[q], group_of(q, lvl[q]), idx[q]) # DONE
      [] pc[q] = "rht_fanout_wait" ->
            LVL_BCAST_TOKEN[q][lvl[q]][group_of(q, lvl[q])] # DONE
      [] pc[q] = "rht_gate_wait" -> ~GateOpen(q)
      [] pc[q] = "rht_barrier_wait" -> ~shmem_barrier_all_returns
      [] pc[q] \in {"done", "exited"} -> TRUE
      [] OTHER -> FALSE

\* One fair schedule of run_hstar_termination: the substrate completes a put
\* as soon as it is issued, and otherwise the PE with the lowest id that can
\* take a step takes it (a PE runs until it blocks in a quiet, a wait or the
\* barrier).
ScenarioNext ==
    \/ \E m \in inflight : Deliver(m)
    \/ /\ inflight = {}
       /\ \E p \in PEs :
            /\ ~Blocked(p)
            /\ \A q \in 0 .. p - 1 : Blocked(q)
            /\ PE(p)

Scenario70Spec == Scenario70Init /\ [][ScenarioNext]_vars /\ WF_vars(ScenarioNext)
Scenario64Spec == Scenario64Init /\ [][ScenarioNext]_vars /\ WF_vars(ScenarioNext)


\* an array whose first n cells hold -1 and whose other cells hold 0
FirstDone(size, n) == [i \in 0 .. size - 1 |-> IF i < n THEN DONE ELSE NOT_DONE]

(* ----------------------- N = 70, G = 8, K = 8 -------------------------- *)
\* the plan every PE holds: three levels of 9, 2 and 1 groups
C8_Plan ==
    \A p \in PEs : LEVELS[p] = 3 /\ NUM_GROUPS[p] = (0 :> 9 @@ 1 :> 2 @@ 2 :> 1)

\* leaf group 8 is PEs 64..69, and the child counts the owners wait for
C8_Counts ==
    /\ {p \in PEs : group_of(p, 0) = 8} = 64 .. 69
    /\ owner_of(64, 0) = 64 /\ gsize_at(64, 0) = 6
    /\ \A g \in 0 .. 7 : gsize_at(g * 8, 0) = 8
    /\ owner_of(0, 1) = 0 /\ gsize_at(0, 1) = 8
    /\ owner_of(64, 1) = 64 /\ gsize_at(64, 1) = 1
    /\ owner_of(0, 2) = 0 /\ gsize_at(0, 2) = 2
    /\ fanout_gsize(NUM_GROUPS[0], 2, 0) = 2
    /\ fanout_gsize(NUM_GROUPS[64], 1, 1) = 1

\* what the run does with them: the tail owner waits on slots 0..5 only, and
\* at the end exactly the slots of existing children hold -1
C8_Run ==
    /\ pc[64] = "rht_fanin_wait" /\ lvl[64] = 0 => idx[64] < 6
    /\ pc[64] = "rht_fanin_wait" /\ lvl[64] = 1 => idx[64] < 1
    /\ pc[0] = "rht_fanin_wait" /\ lvl[0] = 2 => idx[0] < 2
    /\ AllFinished =>
          /\ GROUP_PE_DONE[64][8] = FirstDone(8, 6)
          /\ LVL_BUF[0][<<1, 0>>] = FirstDone(8, 8)
          /\ LVL_BUF[64][<<1, 1>>] = FirstDone(8, 1)
          /\ LVL_BUF[0][<<2, 0>>] = FirstDone(8, 2)
          /\ \A p \in PEs : GateOpen(p)

\* C8 as the program behaves (non-divisible H-STAR scenario, N = 70, G = 8,
\* K = 8): the planner gives L = 3 with groups[0] = 9, groups[1] = 2 and
\* groups[2] = 1; leaf group 8 has 6 members (PEs 64..69); level-1 group 0 has
\* 8 children, level-1 group 1 has one child (leaf group 8) and the top group
\* has 2 children; and the protocol terminates for all 70 PEs.
C8_Scenario70 == [](C8_Plan /\ C8_Counts /\ C8_Run) /\ <>AllFinished

\* all 70 PEs have finished, the tail leaf owner PE 64 having reported as
\* the only child of level-1 group 1 and then as child 1 of the top group
C8_Witness ==
    /\ npes = 70 /\ AllFinished
    /\ <<64, 64, "LVL_BUF", 1, 1, 0>> \in wrote
    /\ <<64, 0, "LVL_BUF", 2, 0, 1>> \in wrote
    /\ <<69, 64, "GROUP_PE_DONE", 0, 8, 5>> \in wrote

\* C8 as stated: for N = 70, G = 8, K = 8 the planner gives L = 2 with
\* groups[0] = 9 and groups[1] = 1, leaf group 8 has 6 members (PEs 64..69),
\* the single top group has 9 children, and the protocol terminates for all
\* 70 PEs.
C8_AsStated ==
    /\ [](/\ \A p \in PEs : /\ LEVELS[p] = 2
                            /\ NUM_GROUPS[p][0] = 9 /\ NUM_GROUPS[p][1] = 1
          /\ {p \in PEs : group_of(p, 0) = 8} = 64 .. 69
          /\ gsize_at(64, 0) = 6
          /\ gsize_at(0, LEVELS[0] - 1) = 9)
    /\ <>AllFinished

(* ----------------------- N = 64, G = 8, K = 8 -------------------------- *)
\* the writes of -1 the scenario describes
C9_LeafWrites == {<<p, 8 * (p \div 8), "GROUP_PE_DONE", 0, p \div 8, p % 8>> : p \in 0 .. 63}
C9_TopWrites == {<<8 * g, 0, "LVL_BUF", 1, 0, g % 8>> : g \in 0 .. 7}
C9_TokenWrites ==
    {<<0, 0, "LVL_BCAST_TOKEN", 1, 0, 0>>}
       \cup {<<0, 8 * g, "LVL_BCAST_TOKEN", 0, g, 0>> : g \in 0 .. 7}
C9_GateWrites == {<<8 * (p \div 8), p, "GLOBAL_TERMINATION_READY", 0, 0, 0>> : p \in 0 .. 63}

\* C9 (perfect H-STAR scenario, N = 64, G = 8, K = 8): L = 2, groups[0] = 8,
\* groups[1] = 1; the level-0 owners are exactly PEs 0, 8, ..., 56; each leaf
\* owner g waits on 8 leaf slots and only then writes slot (g mod 8) of the
\* top mailbox at PE 0; PE 0 waits for the 8 slots, seeds the top token and
\* forwards it to the 8 leaf owners, each of which then sets the gates of its
\* 8 members; no other write of -1 happens, and all of these do.
C9_Scenario64 ==
    /\ \A p \in PEs : LEVELS[p] = 2 /\ NUM_GROUPS[p] = (0 :> 8 @@ 1 :> 1)
    /\ {p \in PEs : p = owner_of(p, 0)} = {8 * g : g \in 0 .. 7}
    /\ {p \in PEs : p = owner_of(p, 1)} = {0}
    /\ \A g \in 0 .. 7 : gsize_at(8 * g, 0) = 8
    /\ gsize_at(0, 1) = 8 /\ fanout_gsize(NUM_GROUPS[0], 1, 0) = 8
    /\ Writes \subseteq C9_LeafWrites \cup C9_TopWrites \cup C9_TokenWrites \cup C9_GateWrites
    /\ \A w \in Writes :
          /\ w \in C9_TopWrites => GROUP_PE_DONE[w[1]][w[1] \div 8] = FirstDone(8, 8)
          /\ w \in C9_TokenWrites => LVL_BUF[0][<<1, 0>>] = FirstDone(8, 8)
          /\ w \in C9_TokenWrites /\ w[4] = 0 => LVL_BCAST_TOKEN[0][1][0] = DONE
          /\ w \in C9_GateWrites => LVL_BCAST_TOKEN[w[1]][0][w[1] \div 8] = DONE
    /\ AllFinished =>
          wrote = C9_LeafWrites \cup C9_TopWrites \cup C9_TokenWrites \cup C9_GateWrites

\* all 64 PEs have finished and the last leaf owner has reported in slot 7
\* and received the token
C9_Witness ==
    /\ npes = 64 /\ AllFinished
    /\ <<56, 0, "LVL_BUF", 1, 0, 7>> \in wrote
    /\ <<0, 56, "LVL_BCAST_TOKEN", 0, 7, 0>> \in wrote
    /\ <<56, 63, "GLOBAL_TERMINATION_READY", 0, 0, 0>> \in wrote
(* ======================= child counts of H-STAR ======================== *)
\* the number of PEs a leaf owner sets the gate of (lines 302-305), and the
\* number of child owners an owner forwards the token to (lines 289-294)
fanout_count(ng, l, g) ==
    IF l = 0
    THEN leaf_end(static_group_owner_pe(G_LEAF, 0, g)) - static_group_owner_pe(G_LEAF, 0, g)
    ELSE fanout_gsize(ng, l, g)

\* C11 (child counts in H-STAR): for every existing group g of every level l
\* the count gsize an owner computes equals min(G, N - g*G) at l = 0 and
\* min(K, groups[l-1] - g*K) at l >= 1; the fan-in and the fan-out compute the
\* same count; and the count is at least 1 and at most G (l = 0) or K (l >= 1).
C11_ChildCounts ==
    \A p \in PEs : Planned(p) =>
       \A l \in 0 .. LEVELS[p] - 1 : \A g \in 0 .. NUM_GROUPS[p][l] - 1 :
          LET ng  == NUM_GROUPS[p]
              fin == fanin_gsize(ng, l, g, static_group_owner_pe(G_LEAF, l, g))
          IN  /\ fin = MemberCount(l, g)
              /\ l = 0 => fin = Min(G_LEAF, npes - g * G_LEAF)
              /\ l >= 1 => fin = Min(K, ng[l - 1] - g * K)
              /\ fin = fanout_count(ng, l, g)
              /\ fin >= 1
              /\ fin <= (IF l = 0 THEN G_LEAF ELSE K)

\* the plan for 70 PEs with G = K = 8: a tail leaf group of 6 and a tail
\* level-1 group of one child
C11_Witness ==
    /\ npes = PlanMaxN /\ G_LEAF = PlanMaxG /\ K = PlanMaxK /\ Planned(ROOT_PE)
    /\ fanout_count(NUM_GROUPS[ROOT_PE], 0, 8) = 6
    /\ fanout_count(NUM_GROUPS[ROOT_PE], 1, 1) = 1
(* ========================= fan-out of H-STAR =========================== *)
\* the token of group g of level l, read at the group's owner
Token(l, g) ==
    LET tab == LVL_BCAST_TOKEN[Owner(l, g)]
    IN  IF l \in DOMAIN tab /\ g \in DOMAIN tab[l] THEN tab[l][g] ELSE UNINIT

\* slot i of the mailbox of group g of level l, read at the group's owner
Slot(l, g, i) ==
    child_cell(Owner(l, g), LVL_CHILD_DONE[Owner(l, g)][l][g], l, g, i)

\* the (level, group) pairs of the plan
Groups == {<<l, g>> \in (0 .. TopLevel(0)) \X (0 .. npes - 1) : g < GroupsAt(l)}

\* C12 (fan-out ordering): the top token LVL_BCAST_TOKEN[L-1][0] is set only
\* by the root, and only after the root's top-level fan-in wait has completed
\* (all top mailbox slots are -1); a token at level l-1 becomes -1 only after
\* the token of its parent group at level l is -1; a PE's gate becomes -1
\* only after the token of its leaf group is -1.
C12_FanoutOrdering ==
    [][ /\ \A w \in Writes' :
              w[3] = "LVL_BCAST_TOKEN" /\ w[4] = TopLevel(0) =>
                 /\ w[1] = ROOT_PE /\ w[2] = ROOT_PE /\ w[5] = 0
                 /\ FaninWaited(ROOT_PE, TopLevel(0))
                 /\ \A i \in 0 .. MemberCount(TopLevel(0), 0) - 1 :
                       Slot(TopLevel(0), 0, i) = DONE
        /\ \A lg \in Groups :
              Token(lg[1], lg[2]) # DONE /\ Token(lg[1], lg[2])' = DONE =>
                 IF lg[1] = TopLevel(0)
                 THEN \A i \in 0 .. MemberCount(lg[1], 0) - 1 : Slot(lg[1], 0, i) = DONE
                 ELSE Token(lg[1] + 1, lg[2] \div K) = DONE
        /\ \A q \in PEs :
              ~GateOpen(q) /\ GateOpen(q)' => Token(0, q \div G_LEAF) = DONE
      ]_vars

\* the token went from the root (level 2) through PE 2's level-1 group down
\* to its leaf group, and PE 2's gate is open
C12_Witness ==
    /\ npes = 3 /\ G_LEAF = 1 /\ K = 2
    /\ Token(2, 0) = DONE /\ Token(1, 1) = DONE /\ Token(0, 2) = DONE
    /\ GateOpen(2)
(* ========================= gate delivery =============================== *)
\* the writes of -1 to the gate of PE q issued so far
GateWrites(q) == {w \in Writes : w[3] = "GLOBAL_TERMINATION_READY" /\ w[2] = q}

\* this step is the iteration pe = q of the gate loop of PE p (lines 305-311)
SetsGate(p, q) ==
    /\ pc[p] = "rht_set_gates" /\ idx[p] = q
    /\ idx'[p] = q + 1

\* C13 (gate delivery): every PE's gate is written with -1 exactly once
\* during a run, by the owner of that PE's leaf group (a local store if the PE
\* is itself the leaf owner, a put otherwise).
C13_GateDelivery ==
    [][ \A q \in PEs :
          /\ \A p \in PEs : SetsGate(p, q) =>
                /\ GateWrites(q) = {}
                /\ p = Owner(0, q \div G_LEAF)
                /\ GateWrites(q)' = {<<p, q, "GLOBAL_TERMINATION_READY", 0, 0, 0>>}
                /\ IF p = q THEN GateOpen(q)' /\ inflight' = inflight
                            ELSE inflight' # inflight /\ wrote' = wrote
          /\ GateWrites(q)' # GateWrites(q) => \E p \in PEs : SetsGate(p, q)
          /\ GateOpen(q)' => GateWrites(q)' \cap wrote' # {}
          /\ AllFinished' => GateWrites(q)' # {}
      ]_vars

\* a leaf owner has stored its own gate and put the gate of its group's
\* other member; the owner of the tail group has stored its own
C13_Witness ==
    /\ npes = 3 /\ G_LEAF = 2 /\ AllFinished
    /\ <<0, 0, "GLOBAL_TERMINATION_READY", 0, 0, 0>> \in wrote
    /\ <<0, 1, "GLOBAL_TERMINATION_READY", 0, 0, 0>> \in wrote
    /\ <<2, 2, "GLOBAL_TERMINATION_READY", 0, 0, 0>> \in wrote
(* ===================== degenerate single group ========================= *)
\* the positions of run_hstar_termination only an owner or the root reaches
OwnerOnly == {"rht_fanin_wait", "rht_fanin_notify", "rht_fanin_quiet", "rht_aggregate",
              "rht_seed", "rht_fanout_wait", "rht_forward", "rht_set_gates",
              "rht_fanout_quiet"}

\* C14 (degenerate single-group case): when N <= G (N = 1 included) there is
\* one level; PE 0 is both the owner of the only leaf group and the root; it
\* waits on exactly N mailbox slots, seeds the top token itself and sets the
\* gates of PEs 0..N-1; no broadcast-token put to another PE is issued; and
\* for N = 1 no operation targets another PE.
C14_SingleGroup ==
    npes <= G_LEAF =>
       /\ \A p \in PEs : LEVELS[p] = 1 /\ (Planned(p) => NUM_GROUPS[p] = (0 :> 1))
       /\ \A p \in PEs : pc[p] \in OwnerOnly => p = ROOT_PE /\ p = Owner(0, 0)
       /\ \A p \in PEs : pc[p] \notin {"rht_fanin_notify", "rht_forward"}
       /\ pc[ROOT_PE] = "rht_fanin_wait" => lvl[ROOT_PE] = 0 /\ idx[ROOT_PE] < npes
       /\ FaninWaited(ROOT_PE, 0) =>
             \A i \in 0 .. G_LEAF - 1 :
                Slot(0, 0, i) = (IF i < npes THEN DONE ELSE NOT_DONE)
       /\ \A w \in Writes :
             /\ w[3] \in Mailbox => w[2] = ROOT_PE /\ w[4] = 0 /\ w[5] = 0 /\ w[6] = w[1]
             /\ w[3] = "LVL_BCAST_TOKEN" => w \in wrote /\ w[1] = ROOT_PE /\ w[2] = ROOT_PE
             /\ w[3] = "GLOBAL_TERMINATION_READY" => w[1] = ROOT_PE
       /\ \A m \in inflight : m.obj # "LVL_BCAST_TOKEN"
       /\ pc[ROOT_PE] \in {"rht_gate_wait"} \cup AfterGate =>
             /\ Token(0, 0) = DONE
             /\ \A q \in PEs : GateWrites(q) = {<<ROOT_PE, q, "GLOBAL_TERMINATION_READY", 0, 0, 0>>}
       /\ npes = 1 =>
             /\ \A w \in Writes : w[1] = w[2]
             /\ \A r \in rma : r[1] = r[2]

\* a two-PE single-group run has finished
C14_Witness ==
    /\ npes = 2 /\ G_LEAF = 2 /\ AllFinished
    /\ \A q \in PEs : GateOpen(q)
    /\ Token(0, 0) = DONE
(* ==================== initialisation before access ===================== *)
\* the cell of PE q a put m targets; UNINIT while q has not allocated it
TargetCell(q, m) ==
    IF ~allocated(q, m) THEN UNINIT
    ELSE CASE m.obj = "GROUP_PE_DONE" -> GROUP_PE_DONE[q][m.g][m.i]
           [] m.obj = "LVL_BUF" -> LVL_BUF[q][<<m.l, m.g>>][m.i]
           [] m.obj = "LVL_BCAST_TOKEN" -> LVL_BCAST_TOKEN[q][m.l][m.g]
           [] m.obj = "ROOT_GROUP_DONE" -> ROOT_GROUP_DONE[q][m.g]
           [] OTHER -> GLOBAL_TERMINATION_READY[q][1]

\* C15 (initialisation before access): no PE performs a remote put into a
\* mailbox slot, token or gate of another PE before that target has finished
\* zero-initialising that slot.
C15_InitBeforeAccess ==
    \A m \in inflight : m.src # m.dst =>
       /\ allocated(m.dst, m)
       /\ TargetCell(m.dst, m) \in {NOT_DONE, DONE}

\* a token put to another PE is in flight, to a token its target has zeroed
C15_Witness ==
    \E m \in inflight : /\ m.src # m.dst /\ m.obj = "LVL_BCAST_TOKEN"
                        /\ TargetCell(m.dst, m) = NOT_DONE
(* ======================================================================= *)
(* global_done_tree_dynamic.c: binary tree of groups with dynamic leaders  *)
(* ======================================================================= *)
\* the values a read of memory that was never stored to can give: one for
\* each of the cases the programs tell apart (-1, 0, and another value)
Garbage == {-1, 0, 1}
Read(v) == IF v = UNINIT THEN Garbage ELSE {v}

\* line 73
dyn_ceil_div(a, b) == (a + b - 1) \div b

\* lines 76-78: leaf_size << level
dyn_group_span_at_level(leaf_size, level) == leaf_size * 2 ^ level

\* lines 81-84
dyn_num_groups_at_level(n, leaf_size, level) ==
    dyn_ceil_div(n, dyn_group_span_at_level(leaf_size, level))

\* lines 87-89
dyn_static_group_owner_pe(leaf_size, level, group_idx) ==
    group_idx * dyn_group_span_at_level(leaf_size, level)

\* lines 92-93
left_child_idx(parent_idx) == parent_idx * 2
right_child_idx(parent_idx) == parent_idx * 2 + 1

\* lines 98-104: the loop that counts the levels
RECURSIVE dyn_count_levels(_, _)
dyn_count_levels(n, levels) ==
    IF dyn_num_groups_at_level(n, G_LEAF, levels) <= 1
    THEN levels + 1
    ELSE dyn_count_levels(n, levels + 1)

\* what no step of global_done_tree_dynamic.c touches
dynFrame == <<heldVars, LEVELS, NUM_GROUPS0, grp, idx, starVars, lvlVars, agg, rma>>

\* state of main of global_done_tree_dynamic.c after the start barrier
\* (line 329)
DynInit ==
    /\ npes \in 1 .. MaxN
    /\ G_LEAF \in 1 .. MaxG
    /\ K = 2
    /\ pc = [p \in PEs |-> "dyn_main_malloc"]
    /\ InitMemory

\* shmem_global_exit(status) ends the job on every PE
shmem_global_exit(status) ==
    /\ exit_status' = status
    /\ pc' = [q \in PEs |-> "exited"]

\* lines 333-338: the five allocations of main and the NULL check
dyn_main_malloc(p) ==
    /\ pc[p] = "dyn_main_malloc"
    /\ shmem_malloc_returns(p)
    /\ mallocs' = [mallocs EXCEPT ![p] = @ + 5]
    /\ \E ok \in BOOLEAN :
         IF ok
         THEN /\ LOCAL_DONE' = [LOCAL_DONE EXCEPT ![p] = <<UNINIT>>]
              /\ ELAPSED_MS' = [ELAPSED_MS EXCEPT ![p] = <<UNINIT>>]
              /\ AGG_PRINTED' = [AGG_PRINTED EXCEPT ![p] = <<UNINIT>>]
              /\ ROOT_GO' = [ROOT_GO EXCEPT ![p] = <<UNINIT>>]
              /\ EXIT_ACKS' = [EXIT_ACKS EXCEPT ![p] = <<UNINIT>>]
              /\ Goto(p, "dyn_main_init")
              /\ UNCHANGED exit_status
         ELSE /\ shmem_global_exit("1")
              /\ UNCHANGED <<LOCAL_DONE, ELAPSED_MS, AGG_PRINTED, ROOT_GO, EXIT_ACKS>>
    /\ UNCHANGED <<dynFrame, lvl, NUM_GROUPS, inflight, wrote, stdout, MAX_LEVELS,
                   GROUP_DONE, GROUP_LEADER, LEAF_COUNT, loc, fetched, elected>>

\* lines 340-344, and lines 98-104 of allocate_tree_flags
dyn_main_init(p) ==
    /\ pc[p] = "dyn_main_init"
    /\ LOCAL_DONE' = [LOCAL_DONE EXCEPT ![p] = <<NOT_DONE>>]
    /\ ELAPSED_MS' = [ELAPSED_MS EXCEPT ![p] = <<0>>]
    /\ AGG_PRINTED' = [AGG_PRINTED EXCEPT ![p] = <<0>>]
    /\ ROOT_GO' = [ROOT_GO EXCEPT ![p] = <<0>>]
    /\ EXIT_ACKS' = [EXIT_ACKS EXCEPT ![p] = <<0>>]
    /\ MAX_LEVELS' = [MAX_LEVELS EXCEPT ![p] = dyn_count_levels(npes, 0)]
    /\ Goto(p, "dyn_malloc_tables")
    /\ UNCHANGED <<dynFrame, exit_status, lvl, mallocs, NUM_GROUPS, inflight, wrote,
                   stdout, GROUP_DONE, GROUP_LEADER, LEAF_COUNT, loc, fetched, elected>>

\* lines 106-111: NUM_GROUPS, GROUP_DONE and GROUP_LEADER, then L = 0
dyn_malloc_tables(p) ==
    /\ pc[p] = "dyn_malloc_tables"
    /\ shmem_malloc_returns(p)
    /\ mallocs' = [mallocs EXCEPT ![p] = @ + 3]
    /\ \E ok \in BOOLEAN :
         IF ok
         THEN /\ GROUP_DONE' = [GROUP_DONE EXCEPT ![p] = Array(MAX_LEVELS[p], NULL)]
              /\ GROUP_LEADER' = [GROUP_LEADER EXCEPT ![p] = Array(MAX_LEVELS[p], NULL)]
              /\ pc' = [pc EXCEPT ![p] = "dyn_malloc_level"]
              /\ lvl' = [lvl EXCEPT ![p] = 0]
              /\ UNCHANGED exit_status
         ELSE /\ shmem_global_exit("1")
              /\ UNCHANGED <<GROUP_DONE, GROUP_LEADER, lvl>>
    /\ UNCHANGED <<dynFrame, NUM_GROUPS, locVars, inflight, wrote, stdout, MAX_LEVELS,
                   LEAF_COUNT, AGG_PRINTED, ROOT_GO, EXIT_ACKS, loc, fetched, elected>>

\* lines 114-118: NUM_GROUPS[L] and the two arrays of level L
dyn_malloc_level(p) ==
    /\ pc[p] = "dyn_malloc_level"
    /\ shmem_malloc_returns(p)
    /\ mallocs' = [mallocs EXCEPT ![p] = @ + 2]
    /\ LET L  == lvl[p]
           ng == dyn_num_groups_at_level(npes, G_LEAF, L)
       IN  /\ NUM_GROUPS' = [NUM_GROUPS EXCEPT ![p] = (L :> ng) @@ @]
           /\ \E ok \in BOOLEAN :
                IF ok
                THEN /\ GROUP_DONE' = [GROUP_DONE EXCEPT ![p][L] = Array(ng, UNINIT)]
                     /\ GROUP_LEADER' = [GROUP_LEADER EXCEPT ![p][L] = Array(ng, UNINIT)]
                     /\ Goto(p, "dyn_init_level")
                     /\ UNCHANGED exit_status
                ELSE /\ shmem_global_exit("1")
                     /\ UNCHANGED <<GROUP_DONE, GROUP_LEADER>>
    /\ UNCHANGED <<dynFrame, lvl, locVars, inflight, wrote, stdout, MAX_LEVELS,
                   LEAF_COUNT, AGG_PRINTED, ROOT_GO, EXIT_ACKS, loc, fetched, elected>>

\* lines 119-122, then L++ and the loop head of line 113
dyn_init_level(p) ==
    /\ pc[p] = "dyn_init_level"
    /\ LET L == lvl[p]
       IN  /\ GROUP_DONE' = [GROUP_DONE EXCEPT ![p][L] = Array(NUM_GROUPS[p][L], 0)]
           /\ GROUP_LEADER' = [GROUP_LEADER EXCEPT ![p][L] = Array(NUM_GROUPS[p][L], -1)]
           /\ lvl' = [lvl EXCEPT ![p] = L + 1]
           /\ Goto(p, IF L + 1 < MAX_LEVELS[p] THEN "dyn_malloc_level"
                                               ELSE "dyn_malloc_LEAF_COUNT")
    /\ UNCHANGED <<dynFrame, exit_status, mallocs, NUM_GROUPS, locVars, inflight, wrote,
                   stdout, MAX_LEVELS, LEAF_COUNT, AGG_PRINTED, ROOT_GO, EXIT_ACKS, loc,
                   fetched, elected>>

\* lines 126-127
dyn_malloc_LEAF_COUNT(p) ==
    /\ pc[p] = "dyn_malloc_LEAF_COUNT"
    /\ shmem_malloc_returns(p)
    /\ mallocs' = [mallocs EXCEPT ![p] = @ + 1]
    /\ \E ok \in BOOLEAN :
         IF ok
         THEN /\ LEAF_COUNT' = [LEAF_COUNT EXCEPT ![p] = Array(NUM_GROUPS[p][0], UNINIT)]
              /\ Goto(p, "dyn_zero_LEAF_COUNT")
              /\ UNCHANGED exit_status
         ELSE /\ shmem_global_exit("1")
              /\ UNCHANGED LEAF_COUNT
    /\ UNCHANGED <<dynFrame, lvl, NUM_GROUPS, locVars, inflight, wrote, stdout,
                   MAX_LEVELS, GROUP_DONE, GROUP_LEADER, AGG_PRINTED, ROOT_GO, EXIT_ACKS,
                   loc, fetched, elected>>

\* line 128
dyn_zero_LEAF_COUNT(p) ==
    /\ pc[p] = "dyn_zero_LEAF_COUNT"
    /\ LEAF_COUNT' = [LEAF_COUNT EXCEPT ![p] = Array(NUM_GROUPS[p][0], 0)]
    /\ Goto(p, "dyn_local_done")
    /\ UNCHANGED <<dynFrame, exit_status, lvl, mallocs, NUM_GROUPS, locVars, inflight,
                   wrote, stdout, MAX_LEVELS, GROUP_DONE, GROUP_LEADER, AGG_PRINTED,
                   ROOT_GO, EXIT_ACKS, loc, fetched, elected>>

\* lines 349-350
dyn_local_done(p) ==
    /\ pc[p] = "dyn_local_done"
    /\ LOCAL_DONE' = [LOCAL_DONE EXCEPT ![p] = <<DONE>>]
    /\ ELAPSED_MS' = [ELAPSED_MS EXCEPT ![p] = <<1>>]
    /\ Goto(p, "dyn_top_flag")
    /\ UNCHANGED <<dynFrame, exit_status, lvl, mallocs, NUM_GROUPS, inflight, wrote,
                   stdout, MAX_LEVELS, GROUP_DONE, GROUP_LEADER, LEAF_COUNT, AGG_PRINTED,
                   ROOT_GO, EXIT_ACKS, loc, fetched, elected>>
(* ---------------- propagate_up_and_maybe_exit -------------------------- *)
\* my_gidx and static_host of PE p at level L (lines 197-199, 260-262)
dyn_gidx(p, L) == p \div dyn_group_span_at_level(G_LEAF, L)
dyn_host(p, L) == dyn_static_group_owner_pe(G_LEAF, L, dyn_gidx(p, L))

\* lines 202-205: the actual size of the leaf group of PE p
dyn_gsize(p) ==
    LET start == dyn_host(p, 0)
        end   == start + dyn_group_span_at_level(G_LEAF, 0)
    IN  (IF end > npes THEN npes ELSE end) - start

dyn_Goto(p, n) ==
    /\ pc' = [pc EXCEPT ![p] = n.pc]
    /\ lvl' = [lvl EXCEPT ![p] = n.lvl]

\* the end of the body of the loop of line 259 for level L (L = 0: its
\* start): the next level, or tiny_pause and the next pass of line 234
dyn_continue(p, L) ==
    IF L + 1 < MAX_LEVELS[p] THEN [pc |-> "dyn_leader_get", lvl |-> L + 1]
                             ELSE [pc |-> "dyn_top_flag", lvl |-> 0]

\* shmem_int_p(&GROUP_LEADER[L][g], me, host): in flight until delivered
dyn_leader_put(p, host, L, g) ==
    inflight' = inflight \cup {Put(p, host, "GROUP_LEADER", L, g, 0)}

\* mutant: the swap is not conditional on the value it finds
dyn_compare_swap_blind(p, host, L, g, old) ==
    /\ old = 0
    /\ GROUP_DONE' = [GROUP_DONE EXCEPT ![host][L][g] = 1]
    /\ wrote' = wrote \cup {<<p, host, "GROUP_DONE", L, g, 0>>}

\* shmem_int_atomic_compare_swap(&GROUP_DONE[L][g], 0, 1, host) by PE p; old
\* is the value it returns
dyn_compare_swap(p, host, L, g, old) ==
    /\ old \in Read(GROUP_DONE[host][L][g])
    /\ IF old = 0
       THEN /\ GROUP_DONE' = [GROUP_DONE EXCEPT ![host][L][g] = 1]
            /\ wrote' = wrote \cup {<<p, host, "GROUP_DONE", L, g, 0>>}
       ELSE /\ GROUP_DONE' = [GROUP_DONE EXCEPT ![host][L][g] = old]
            /\ UNCHANGED wrote

\* lines 236-252: the early check of the top flag
dyn_top_flag(p) ==
    /\ pc[p] = "dyn_top_flag"
    /\ \E top_flag \in Read(GROUP_DONE[ROOT_PE][MAX_LEVELS[p] - 1][0]) :
         dyn_Goto(p, [pc  |-> IF top_flag = 1
                              THEN IF p = ROOT_PE THEN "dyn_agg_cas" ELSE "dyn_wait_go"
                              ELSE "dyn_leaf_get",
                      lvl |-> 0])
    /\ UNCHANGED <<dynFrame, exit_status, mallocs, NUM_GROUPS, locVars, inflight, wrote,
                   stdout, dynVars>>

\* line 208
dyn_leaf_get(p) ==
    /\ pc[p] = "dyn_leaf_get"
    /\ \E done \in Read(GROUP_DONE[dyn_host(p, 0)][0][dyn_gidx(p, 0)]) :
         dyn_Goto(p, IF done = 1 THEN dyn_continue(p, 0)
                                 ELSE [pc |-> "dyn_leaf_fetch_inc", lvl |-> 0])
    /\ UNCHANGED <<dynFrame, exit_status, mallocs, NUM_GROUPS, locVars, inflight, wrote,
                   stdout, dynVars>>

\* lines 211-213: prior = shmem_int_atomic_fetch_inc(&LEAF_COUNT[gidx], host)
dyn_leaf_fetch_inc(p) ==
    /\ pc[p] = "dyn_leaf_fetch_inc"
    /\ LET host == dyn_host(p, 0)  gidx == dyn_gidx(p, 0)
       IN  /\ LEAF_COUNT[host] # NULL
           /\ \E prior \in Read(LEAF_COUNT[host][gidx]) :
                /\ prior < MaxCount
                /\ LEAF_COUNT' = [LEAF_COUNT EXCEPT ![host][gidx] = prior + 1]
                /\ fetched' = [fetched EXCEPT ![p] = @ + 1]
                /\ elected' = [elected EXCEPT ![p] =
                                  IF prior = dyn_gsize(p) - 1 THEN @ + 1 ELSE @]
                /\ dyn_Goto(p, IF prior = dyn_gsize(p) - 1
                               THEN [pc |-> "dyn_leaf_cas", lvl |-> 0]
                               ELSE dyn_continue(p, 0))
    /\ UNCHANGED <<dynFrame, exit_status, mallocs, NUM_GROUPS, locVars, inflight, wrote,
                   stdout, MAX_LEVELS, GROUP_DONE, GROUP_LEADER, AGG_PRINTED, ROOT_GO,
                   EXIT_ACKS, loc>>

\* lines 215-222: the last finisher sets the leaf flag and records itself
dyn_leaf_cas(p) ==
    /\ pc[p] = "dyn_leaf_cas"
    /\ LET host == dyn_host(p, 0)  gidx == dyn_gidx(p, 0)
       IN  /\ \E old \in {0, 1} : dyn_compare_swap(p, host, 0, gidx, old)
           /\ dyn_leader_put(p, host, 0, gidx)
    /\ dyn_Goto(p, dyn_continue(p, 0))
    /\ UNCHANGED <<dynFrame, exit_status, mallocs, NUM_GROUPS, locVars, stdout,
                   MAX_LEVELS, GROUP_LEADER, LEAF_COUNT, AGG_PRINTED, ROOT_GO, EXIT_ACKS,
                   loc, fetched, elected>>

\* lines 260-271: the leader test and the test that a left child exists
dyn_leader_get(p) ==
    /\ pc[p] = "dyn_leader_get"
    /\ LET L == lvl[p]  my_gidx == dyn_gidx(p, L)  static_host == dyn_host(p, L)
       IN  \E cur_leader \in Read(GROUP_LEADER[static_host][L][my_gidx]) :
              dyn_Goto(p, IF cur_leader # -1 /\ cur_leader # p
                          THEN dyn_continue(p, L)
                          ELSE IF left_child_idx(my_gidx) >= NUM_GROUPS[p][L - 1]
                               THEN dyn_continue(p, L)
                               ELSE [pc |-> "dyn_left_get", lvl |-> L])
    /\ UNCHANGED <<dynFrame, exit_status, mallocs, NUM_GROUPS, locVars, inflight, wrote,
                   stdout, dynVars>>

\* lines 273-277 (and 282 when there is no right child)
dyn_left_get(p) ==
    /\ pc[p] = "dyn_left_get"
    /\ LET L == lvl[p]  my_gidx == dyn_gidx(p, L)
           childL    == left_child_idx(my_gidx)
           childR    == right_child_idx(my_gidx)
           left_host == dyn_static_group_owner_pe(G_LEAF, L - 1, childL)
       IN  \E left_done \in Read(GROUP_DONE[left_host][L - 1][childL]) :
              IF childR < NUM_GROUPS[p][L - 1]
              THEN /\ loc' = [loc EXCEPT ![p] = left_done]
                   /\ dyn_Goto(p, [pc |-> "dyn_right_get", lvl |-> L])
              ELSE /\ loc' = loc
                   /\ dyn_Goto(p, IF left_done # 0
                                  THEN [pc |-> "dyn_group_cas", lvl |-> L]
                                  ELSE dyn_continue(p, L))
    /\ UNCHANGED <<dynFrame, exit_status, mallocs, NUM_GROUPS, locVars, inflight, wrote,
                   stdout, MAX_LEVELS, GROUP_DONE, GROUP_LEADER, LEAF_COUNT, AGG_PRINTED,
                   ROOT_GO, EXIT_ACKS, fetched, elected>>

\* lines 278-282
dyn_right_get(p) ==
    /\ pc[p] = "dyn_right_get"
    /\ LET L == lvl[p]  my_gidx == dyn_gidx(p, L)
           childR     == right_child_idx(my_gidx)
           right_host == dyn_static_group_owner_pe(G_LEAF, L - 1, childR)
       IN  \E right_done \in Read(GROUP_DONE[right_host][L - 1][childR]) :
              dyn_Goto(p, IF loc[p] # 0 /\ right_done # 0
                          THEN [pc |-> "dyn_group_cas", lvl |-> L]
                          ELSE dyn_continue(p, L))
    /\ loc' = [loc EXCEPT ![p] = 0]
    /\ UNCHANGED <<dynFrame, exit_status, mallocs, NUM_GROUPS, locVars, inflight, wrote,
                   stdout, MAX_LEVELS, GROUP_DONE, GROUP_LEADER, LEAF_COUNT, AGG_PRINTED,
                   ROOT_GO, EXIT_ACKS, fetched, elected>>

\* lines 284-295: whoever wins the compare-and-swap becomes the leader
dyn_group_cas(p) ==
    /\ pc[p] = "dyn_group_cas"
    /\ LET L == lvl[p]  my_gidx == dyn_gidx(p, L)  static_host == dyn_host(p, L)
       IN  \E old \in {0, 1} :
              /\ dyn_compare_swap(p, static_host, L, my_gidx, old)
              /\ IF old = 0
                 THEN /\ dyn_leader_put(p, static_host, L, my_gidx)
                      /\ dyn_Goto(p, IF L + 1 < MAX_LEVELS[p]
                                     THEN [pc |-> "dyn_parent_cas", lvl |-> L]
                                     ELSE dyn_continue(p, L))
                 ELSE /\ UNCHANGED inflight
                      /\ dyn_Goto(p, dyn_continue(p, L))
    /\ UNCHANGED <<dynFrame, exit_status, mallocs, NUM_GROUPS, locVars, stdout,
                   MAX_LEVELS, GROUP_LEADER, LEAF_COUNT, AGG_PRINTED, ROOT_GO, EXIT_ACKS,
                   loc, fetched, elected>>

\* lines 296-306: the parent is marked as well
dyn_parent_cas(p) ==
    /\ pc[p] = "dyn_parent_cas"
    /\ LET L == lvl[p]
           parent_idx  == dyn_gidx(p, L) \div 2
           parent_host == dyn_static_group_owner_pe(G_LEAF, L + 1, parent_idx)
       IN  \E pold \in {0, 1} :
              /\ dyn_compare_swap(p, parent_host, L + 1, parent_idx, pold)
              /\ IF pold = 0 THEN dyn_leader_put(p, parent_host, L + 1, parent_idx)
                             ELSE UNCHANGED inflight
    /\ dyn_Goto(p, dyn_continue(p, lvl[p]))
    /\ UNCHANGED <<dynFrame, exit_status, mallocs, NUM_GROUPS, locVars, stdout,
                   MAX_LEVELS, GROUP_LEADER, LEAF_COUNT, AGG_PRINTED, ROOT_GO, EXIT_ACKS,
                   loc, fetched, elected>>

\* the substrate completes a put of a leader id at its host
dyn_Deliver(m) ==
    /\ exit_status = "running"
    /\ m \in inflight /\ m.obj = "GROUP_LEADER"
    /\ inflight' = inflight \ {m}
    /\ GROUP_LEADER' = [GROUP_LEADER EXCEPT ![m.dst][m.l][m.g] = m.src]
    /\ UNCHANGED <<dynFrame, exit_status, pc, lvl, mallocs, NUM_GROUPS, locVars, wrote,
                   stdout, MAX_LEVELS, GROUP_DONE, LEAF_COUNT, AGG_PRINTED, ROOT_GO,
                   EXIT_ACKS, loc, fetched, elected>>
(* ---------------- root_print_then_release_and_exit --------------------- *)
\* lines 147-153: the aggregation loop from pe on, a the running sum, minv
\* and maxv
RECURSIVE dyn_aggregate(_, _)
dyn_aggregate(pe, a) ==
    IF pe < npes
    THEN LET val  == ELAPSED_MS[pe][1]
             mm   == IF pe = 0 THEN [a EXCEPT !.minv = val, !.maxv = val] ELSE a
             minv == IF val < mm.minv THEN val ELSE mm.minv
             maxv == IF val > mm.maxv THEN val ELSE mm.maxv
         IN  dyn_aggregate(pe + 1, [sum |-> a.sum + val, minv |-> minv, maxv |-> maxv])
    ELSE a

\* lines 144-158: the print-once compare-and-swap and the aggregate line
dyn_agg_cas(p) ==
    /\ pc[p] = "dyn_agg_cas"
    /\ LET old == AGG_PRINTED[ROOT_PE][1]
           a   == dyn_aggregate(0, [sum |-> 0, minv |-> 0, maxv |-> 0])
       IN  /\ AGG_PRINTED' = [AGG_PRINTED EXCEPT ![ROOT_PE] = IF old = 0 THEN <<1>> ELSE @]
           /\ stdout' = IF old = 0 /\ p = ROOT_PE
                        THEN Append(stdout, [line |-> "ELAPSED_MS", npes |-> npes,
                                             min |-> a.minv, sum |-> a.sum,
                                             max |-> a.maxv])
                        ELSE stdout
    /\ Goto(p, IF p = ROOT_PE THEN "dyn_release" ELSE "dyn_top_flag")
    /\ UNCHANGED <<dynFrame, exit_status, lvl, mallocs, NUM_GROUPS, locVars, inflight,
                   wrote, MAX_LEVELS, GROUP_DONE, GROUP_LEADER, LEAF_COUNT, ROOT_GO,
                   EXIT_ACKS, loc, fetched, elected>>

\* lines 163-164: shmem_int_p(ROOT_GO, 1, ROOT_PE) and shmem_quiet
dyn_release(p) ==
    /\ pc[p] = "dyn_release"
    /\ shmem_quiet_returns(p)
    /\ ROOT_GO' = [ROOT_GO EXCEPT ![ROOT_PE] = <<1>>]
    /\ wrote' = wrote \cup {<<p, ROOT_PE, "ROOT_GO", 0, 0, 0>>}
    /\ Goto(p, "dyn_wait_acks")
    /\ UNCHANGED <<dynFrame, exit_status, lvl, mallocs, NUM_GROUPS, locVars, inflight,
                   stdout, MAX_LEVELS, GROUP_DONE, GROUP_LEADER, LEAF_COUNT, AGG_PRINTED,
                   EXIT_ACKS, loc, fetched, elected>>

\* lines 174-185: the root leaves the loop once npes - 1 acknowledgements are
\* in, then shmem_quiet and shmem_global_exit(0)
dyn_wait_acks(p) ==
    /\ pc[p] = "dyn_wait_acks"
    /\ ~(EXIT_ACKS[ROOT_PE][1] < npes - 1)
    /\ shmem_quiet_returns(p)
    /\ shmem_global_exit("0")
    /\ UNCHANGED <<dynFrame, lvl, mallocs, NUM_GROUPS, locVars, inflight, wrote, stdout,
                   dynVars>>

\* lines 244-246: a non-root PE leaves the loop once ROOT_GO is not 0
dyn_wait_go(p) ==
    /\ pc[p] = "dyn_wait_go"
    /\ ROOT_GO[ROOT_PE][1] # 0
    /\ Goto(p, "dyn_ack")
    /\ UNCHANGED <<dynFrame, exit_status, lvl, mallocs, NUM_GROUPS, locVars, inflight,
                   wrote, stdout, dynVars>>

\* line 247: shmem_long_atomic_fetch_inc(EXIT_ACKS, ROOT_PE)
dyn_ack(p) ==
    /\ pc[p] = "dyn_ack"
    /\ EXIT_ACKS' = [EXIT_ACKS EXCEPT ![ROOT_PE] = <<@[1] + 1>>]
    /\ Goto(p, "dyn_exit")
    /\ UNCHANGED <<dynFrame, exit_status, lvl, mallocs, NUM_GROUPS, locVars, inflight,
                   wrote, stdout, MAX_LEVELS, GROUP_DONE, GROUP_LEADER, LEAF_COUNT,
                   AGG_PRINTED, ROOT_GO, loc, fetched, elected>>

\* lines 248-249: shmem_quiet and shmem_global_exit(0)
dyn_exit(p) ==
    /\ pc[p] = "dyn_exit"
    /\ shmem_quiet_returns(p)
    /\ shmem_global_exit("0")
    /\ UNCHANGED <<dynFrame, lvl, mallocs, NUM_GROUPS, locVars, inflight, wrote, stdout,
                   dynVars>>

DynNext ==
    \/ \E p \in PEs : dyn_main_malloc(p)
    \/ \E p \in PEs : dyn_main_init(p)
    \/ \E p \in PEs : dyn_malloc_tables(p)
    \/ \E p \in PEs : dyn_malloc_level(p)
    \/ \E p \in PEs : dyn_init_level(p)
    \/ \E p \in PEs : dyn_malloc_LEAF_COUNT(p)
    \/ \E p \in PEs : dyn_zero_LEAF_COUNT(p)
    \/ \E p \in PEs : dyn_local_done(p)
    \/ \E p \in PEs : dyn_top_flag(p)
    \/ \E p \in PEs : dyn_leaf_get(p)
    \/ \E p \in PEs : dyn_leaf_fetch_inc(p)
    \/ \E p \in PEs : dyn_leaf_cas(p)
    \/ \E p \in PEs : dyn_leader_get(p)
    \/ \E p \in PEs : dyn_left_get(p)
    \/ \E p \in PEs : dyn_right_get(p)
    \/ \E p \in PEs : dyn_group_cas(p)
    \/ \E p \in PEs : dyn_parent_cas(p)
    \/ \E p \in PEs : dyn_agg_cas(p)
    \/ \E p \in PEs : dyn_release(p)
    \/ \E p \in PEs : dyn_wait_acks(p)
    \/ \E p \in PEs : dyn_wait_go(p)
    \/ \E p \in PEs : dyn_ack(p)
    \/ \E p \in PEs : dyn_exit(p)
    \/ \E m \in inflight : dyn_Deliver(m)

DynSpec == DynInit /\ [][DynNext]_vars
(* ============== properties of global_done_tree_dynamic.c =============== *)
DynLeafGroups == 0 .. dyn_num_groups_at_level(npes, G_LEAF, 0) - 1
\* the PEs of leaf group g
DynMembers(g) == {q \in PEs : q \div G_LEAF = g}
\* GROUP_DONE[L][g] at the static host of the group
DynFlag(L, g) ==
    LET tab == GROUP_DONE[g * G_LEAF * 2 ^ L]
    IN  IF L \in DOMAIN tab /\ g \in DOMAIN tab[L] THEN tab[L][g] ELSE UNINIT
\* LEAF_COUNT[g] at the static host of leaf group g
DynCount(g) ==
    LET tab == LEAF_COUNT[g * G_LEAF]
    IN  IF g \in DOMAIN tab THEN tab[g] ELSE UNINIT
\* the PEs whose compare-and-swap took GROUP_DONE[L][g] from 0 to 1
DynMarkers(L, g) == {w[1] : w \in {v \in wrote : v[3] = "GROUP_DONE" /\ v[4] = L /\ v[5] = g}}
Finished(q) == LOCAL_DONE[q] = <<DONE>>

\* C16 (dynamic-variant leaf safety): GROUP_DONE[0][g] at the leaf host is 1
\* only in a state where every member PE of leaf group g has set
\* LOCAL_DONE = -1; the PE that marks the group done is a member of g, and
\* every member has finished when it does so.
C16_LeafSafety ==
    \A g \in DynLeafGroups :
       /\ DynFlag(0, g) = 1 => \A q \in DynMembers(g) : Finished(q)
       /\ \A p \in DynMarkers(0, g) :
             p \in DynMembers(g) /\ \A q \in DynMembers(g) : Finished(q)

\* PE 0 has gone through the loop of line 234 twice, alone and after it
\* zeroed the counter, and has marked its two-member leaf group done while
\* PE 1 has not reached line 349
C16_Witness ==
    /\ npes = 2 /\ G_LEAF = 2
    /\ fetched = (0 :> 2 @@ 1 :> 0) /\ elected = (0 :> 1 @@ 1 :> 0)
    /\ DynFlag(0, 0) = 1 /\ DynMarkers(0, 0) = {0}
    /\ ~Finished(1)

\* C17 (dynamic-variant leaf counter): LEAF_COUNT[g] is incremented exactly
\* once per member PE of leaf group g over the whole run, so it goes from 0
\* to the group's actual member count and never exceeds it.
C17_LeafCounter ==
    /\ \A p \in PEs : fetched[p] <= 1
    /\ \A g \in DynLeafGroups :
          /\ DynCount(g) # UNINIT => DynCount(g) <= Cardinality(DynMembers(g))
          /\ DynFlag(0, g) = 1 => \A q \in DynMembers(g) : fetched[q] = 1

\* the counter of a two-member group stands at 3: PE 0 incremented it twice
\* after zeroing it and PE 1, which had read the flag as 0, once more
C17_Witness ==
    /\ npes = 2 /\ G_LEAF = 2
    /\ fetched = (0 :> 2 @@ 1 :> 1) /\ elected = (0 :> 1 @@ 1 :> 0)
    /\ DynCount(0) = 3

RECURSIVE DynElections(_)
\* the number of fetch-increments by PEs of S that returned gsize - 1
DynElections(S) ==
    IF S = {} THEN 0
    ELSE LET q == CHOOSE x \in S : TRUE IN elected[q] + DynElections(S \ {q})

\* C18 (dynamic-variant leader uniqueness): for every leaf group g, over
\* every run, exactly one fetch-increment of LEAF_COUNT[g] returns the prior
\* value (actual member count - 1), so exactly one PE becomes the leaf leader
\* of g: never more than one, and one when the job has exited with status 0.
C18_LeaderUnique ==
    \A g \in DynLeafGroups :
       /\ DynElections(DynMembers(g)) <= 1
       /\ exit_status = "0" => DynElections(DynMembers(g)) = 1

\* both PEs of a two-member group are at line 215: PE 1 counted 0 and 1
\* before PE 0 executed line 128, then PE 0 counted 0 and 1
C18_Witness ==
    /\ npes = 2 /\ G_LEAF = 2
    /\ fetched = (0 :> 2 @@ 1 :> 2) /\ elected = (0 :> 1 @@ 1 :> 1)
    /\ pc[0] = "dyn_leaf_cas" /\ pc[1] = "dyn_leaf_cas"
\* the number of levels and the groups of level L
DynLevels == dyn_count_levels(npes, 0)
DynGroups(L) == 0 .. dyn_num_groups_at_level(npes, G_LEAF, L) - 1
\* the existing child groups of group g of level L >= 1
DynChildren(L, g) == {left_child_idx(g), right_child_idx(g)} \cap DynGroups(L - 1)

\* C19 (dynamic-variant internal-level safety): GROUP_DONE[L][g] for L >= 1
\* is 1 only in a state where GROUP_DONE of every existing child group of g
\* at level L-1 is already 1; consequently the top-level flag
\* GROUP_DONE[MAX_LEVELS-1][0] is 1 only when every PE has set
\* LOCAL_DONE = -1, and no PE calls shmem_global_exit(0) before that.
C19_InternalSafety ==
    /\ \A L \in 1 .. DynLevels - 1 : \A g \in DynGroups(L) :
          DynFlag(L, g) = 1 => \A c \in DynChildren(L, g) : DynFlag(L - 1, c) = 1
    /\ DynFlag(DynLevels - 1, 0) = 1 => \A q \in PEs : Finished(q)
    /\ exit_status = "0" => \A q \in PEs : Finished(q)

\* three leaf groups of one PE: PE 0 completed level-1 group 0 and then
\* marked the top group (lines 295-300) while level-1 group 1 is not done and
\* PE 2 has not finished; no PE has incremented a counter twice
C19_Witness ==
    /\ npes = 3 /\ G_LEAF = 1
    /\ \A q \in PEs : fetched[q] <= 1
    /\ DynMarkers(1, 0) = {0} /\ DynMarkers(2, 0) = {0}
    /\ DynFlag(2, 0) = 1 /\ DynFlag(1, 1) = 0
    /\ ~Finished(2)

\* the PEs that have published ROOT_GO = 1
DynReleasers == {w[1] : w \in {v \in wrote : v[3] = "ROOT_GO"}}

\* C20, as amended: at most one PE ever takes the top-level flag from 0 to 1,
\* the flag is 1 exactly when some PE has done so, and exactly one PE has when
\* the release is published or the job has exited with status 0; the release
\* (ROOT_GO = 1) is published by ROOT_PE only, after it has read the top flag
\* as 1, whichever PE completed the top-level group.
C20_GlobalLeader ==
    LET top == DynLevels - 1
    IN  /\ Cardinality(DynMarkers(top, 0)) <= 1
        /\ DynFlag(top, 0) = 1 <=> DynMarkers(top, 0) # {}
        /\ DynReleasers \subseteq {ROOT_PE}
        /\ (DynReleasers # {} \/ exit_status = "0") =>
              Cardinality(DynMarkers(top, 0)) = 1 /\ DynFlag(top, 0) = 1
        /\ \A p \in PEs : pc[p] \in {"dyn_agg_cas", "dyn_release", "dyn_wait_acks"} =>
              p = ROOT_PE /\ DynFlag(top, 0) = 1

\* PE 1 completed the top-level group of a two-level run and PE 0 has
\* published the release
C20_Witness ==
    /\ npes = 2 /\ G_LEAF = 1
    /\ DynMarkers(1, 0) = {1}
    /\ DynReleasers = {ROOT_PE}

\* C20 (dynamic-variant global leader): in every run exactly one PE
\* completes the top-level group (makes the 0 -> 1 transition of the root
\* group's done state), and that PE is the one that initiates the release of
\* termination to the other PEs.
C20_AsStated ==
    LET top == DynLevels - 1
    IN  /\ Cardinality(DynMarkers(top, 0)) <= 1
        /\ (DynReleasers # {} \/ exit_status = "0") =>
              Cardinality(DynMarkers(top, 0)) = 1
        /\ DynReleasers \subseteq DynMarkers(top, 0)
\* GROUP_LEADER[L][g] at the static host of the group
DynLeader(L, g) ==
    LET tab == GROUP_LEADER[g * G_LEAF * 2 ^ L]
    IN  IF L \in DOMAIN tab /\ g \in DOMAIN tab[L] THEN tab[L][g] ELSE UNINIT
\* the PEs that have issued a put of their id to GROUP_LEADER[L][g]
DynLeaderWriters(L, g) ==
    {m.src : m \in {x \in inflight : x.obj = "GROUP_LEADER" /\ x.l = L /\ x.g = g}}
       \cup (IF DynLeader(L, g) \in {-1, UNINIT} THEN {} ELSE {DynLeader(L, g)})

\* C21 (dynamic-variant leader record): each GROUP_LEADER[L][g] slot changes
\* from -1 to a PE id at most once in a run, the PE id written is that of the
\* PE whose atomic operation completed group (L, g), and whenever
\* GROUP_LEADER[L][g] # -1 the flag GROUP_DONE[L][g] is 1.
C21_LeaderRecord ==
    [][ \A L \in 0 .. DynLevels - 1 : \A g \in DynGroups(L) :
          /\ DynLeader(L, g) \notin {-1, UNINIT} => DynLeader(L, g)' = DynLeader(L, g)
          /\ DynLeaderWriters(L, g)' \subseteq DynMarkers(L, g)'
          /\ DynLeader(L, g)' \notin {-1, UNINIT} => DynFlag(L, g)' = 1
      ]_vars

\* both PEs of a two-member leaf group took the leader branch of line 213
\* and PE 0's id has replaced PE 1's in GROUP_LEADER[0][0]
C21_Witness ==
    /\ npes = 2 /\ G_LEAF = 2
    /\ fetched = (0 :> 2 @@ 1 :> 2) /\ elected = (0 :> 1 @@ 1 :> 1)
    /\ DynMarkers(0, 0) = {1}
    /\ DynLeader(0, 0) = 0

\* the step is a call of shmem_global_exit(0)
DynExitCall == exit_status = "running" /\ exit_status' = "0"
\* the step increments EXIT_ACKS at the root
DynAckStep ==
    /\ EXIT_ACKS[ROOT_PE] \notin {NULL, <<UNINIT>>}
    /\ EXIT_ACKS'[ROOT_PE] # EXIT_ACKS[ROOT_PE]

\* C22 (root-last exit with acknowledgements, dynamic variant): every non-root
\* PE increments EXIT_ACKS at the root once, only after it has read
\* ROOT_GO == 1, and issues no remote operation targeting the root afterwards
\* (it goes on to its shmem_quiet and exit); the job exits through the
\* root's call, made in a state where EXIT_ACKS >= N - 1, so the root is the
\* last PE to exit.
C22_RootLastExit ==
    [][ /\ DynAckStep =>
             \E p \in PEs \ {ROOT_PE} :
                /\ pc[p] = "dyn_ack" /\ pc'[p] = "dyn_exit"
                /\ ROOT_GO[ROOT_PE] = <<1>>
                /\ EXIT_ACKS'[ROOT_PE] = <<EXIT_ACKS[ROOT_PE][1] + 1>>
        /\ DynExitCall =>
             /\ pc[ROOT_PE] = "dyn_wait_acks"
             /\ EXIT_ACKS[ROOT_PE][1] >= npes - 1
             /\ \A q \in PEs \ {ROOT_PE} : pc[q] = "dyn_exit"
      ]_vars

\* the job of three PEs has ended with status 0 on one acknowledgement
C22_Witness ==
    /\ npes = 3
    /\ exit_status = "0"
    /\ EXIT_ACKS[ROOT_PE] = <<1>>

(* ======================================================================= *)
(* global_done_tree.c: binary tree of groups with static leaders           *)
(* ======================================================================= *)
\* lines 67-78 and 86-98 of global_done_tree.c (ceil_div, group_span_at_level,
\* num_groups_at_level, left_child_idx, right_child_idx and the loop that
\* counts the levels) are the functions of the same names of
\* global_done_tree_dynamic.c, modelled above

\* lines 81-83
group_leader_pe(leaf_size, level, group_idx) ==
    group_idx * dyn_group_span_at_level(leaf_size, level)

\* what no step of global_done_tree.c touches
treeFrame == <<heldVars, LEVELS, NUM_GROUPS0, grp, starVars, lvlVars, agg, rma, inflight,
               GROUP_LEADER, LEAF_COUNT, EXIT_ACKS, fetched, elected>>

\* state of main of global_done_tree.c after the start barrier (line 290)
TreeInit ==
    /\ npes \in 1 .. MaxN
    /\ G_LEAF \in 1 .. MaxG
    /\ K = 2
    /\ pc = [p \in PEs |-> "tree_main_malloc"]
    /\ InitMemory

\* shmem_global_exit(0) called by PE p: the call is recorded in wrote
tree_global_exit(p) ==
    /\ shmem_global_exit("0")
    /\ wrote' = wrote \cup {<<p, p, "shmem_global_exit", 0, 0, 0>>}

\* lines 294-298: the four allocations of main and the NULL check
tree_main_malloc(p) ==
    /\ pc[p] = "tree_main_malloc"
    /\ shmem_malloc_returns(p)
    /\ mallocs' = [mallocs EXCEPT ![p] = @ + 4]
    /\ \E ok \in BOOLEAN :
         IF ok
         THEN /\ LOCAL_DONE' = [LOCAL_DONE EXCEPT ![p] = <<UNINIT>>]
              /\ ELAPSED_MS' = [ELAPSED_MS EXCEPT ![p] = <<UNINIT>>]
              /\ AGG_PRINTED' = [AGG_PRINTED EXCEPT ![p] = <<UNINIT>>]
              /\ ROOT_GO' = [ROOT_GO EXCEPT ![p] = <<UNINIT>>]
              /\ Goto(p, "tree_main_init")
              /\ UNCHANGED exit_status
         ELSE /\ shmem_global_exit("1")
              /\ UNCHANGED <<LOCAL_DONE, ELAPSED_MS, AGG_PRINTED, ROOT_GO>>
    /\ UNCHANGED <<treeFrame, lvl, idx, NUM_GROUPS, wrote, stdout, MAX_LEVELS, GROUP_DONE,
                   loc>>

\* lines 300-303, and lines 92-98 of allocate_tree_flags
tree_main_init(p) ==
    /\ pc[p] = "tree_main_init"
    /\ LOCAL_DONE' = [LOCAL_DONE EXCEPT ![p] = <<NOT_DONE>>]
    /\ ELAPSED_MS' = [ELAPSED_MS EXCEPT ![p] = <<0>>]
    /\ AGG_PRINTED' = [AGG_PRINTED EXCEPT ![p] = <<0>>]
    /\ ROOT_GO' = [ROOT_GO EXCEPT ![p] = <<0>>]
    /\ MAX_LEVELS' = [MAX_LEVELS EXCEPT ![p] = dyn_count_levels(npes, 0)]
    /\ Goto(p, "tree_malloc_tables")
    /\ UNCHANGED <<treeFrame, exit_status, lvl, idx, mallocs, NUM_GROUPS, wrote, stdout,
                   GROUP_DONE, loc>>

\* lines 100-104: NUM_GROUPS and GROUP_DONE, then L = 0
tree_malloc_tables(p) ==
    /\ pc[p] = "tree_malloc_tables"
    /\ shmem_malloc_returns(p)
    /\ mallocs' = [mallocs EXCEPT ![p] = @ + 2]
    /\ \E ok \in BOOLEAN :
         IF ok
         THEN /\ GROUP_DONE' = [GROUP_DONE EXCEPT ![p] = Array(MAX_LEVELS[p], NULL)]
              /\ pc' = [pc EXCEPT ![p] = "tree_malloc_level"]
              /\ lvl' = [lvl EXCEPT ![p] = 0]
              /\ UNCHANGED exit_status
         ELSE /\ shmem_global_exit("1")
              /\ UNCHANGED <<GROUP_DONE, lvl>>
    /\ UNCHANGED <<treeFrame, idx, NUM_GROUPS, LOCAL_DONE, ELAPSED_MS, wrote, stdout,
                   MAX_LEVELS, AGG_PRINTED, ROOT_GO, loc>>

\* lines 107-110: NUM_GROUPS[L] and the flags of level L
tree_malloc_level(p) ==
    /\ pc[p] = "tree_malloc_level"
    /\ shmem_malloc_returns(p)
    /\ mallocs' = [mallocs EXCEPT ![p] = @ + 1]
    /\ LET L  == lvl[p]
           ng == dyn_num_groups_at_level(npes, G_LEAF, L)
       IN  /\ NUM_GROUPS' = [NUM_GROUPS EXCEPT ![p] = (L :> ng) @@ @]
           /\ \E ok \in BOOLEAN :
                IF ok
                THEN /\ GROUP_DONE' = [GROUP_DONE EXCEPT ![p][L] = Array(ng, UNINIT)]
                     /\ Goto(p, "tree_init_level")
                     /\ UNCHANGED exit_status
                ELSE /\ shmem_global_exit("1")
                     /\ UNCHANGED GROUP_DONE
    /\ UNCHANGED <<treeFrame, lvl, idx, LOCAL_DONE, ELAPSED_MS, wrote, stdout, MAX_LEVELS,
                   AGG_PRINTED, ROOT_GO, loc>>

\* line 111, then L++ and the loop head of line 106
tree_init_level(p) ==
    /\ pc[p] = "tree_init_level"
    /\ LET L == lvl[p]
       IN  /\ GROUP_DONE' = [GROUP_DONE EXCEPT ![p][L] = Array(NUM_GROUPS[p][L], 0)]
           /\ lvl' = [lvl EXCEPT ![p] = L + 1]
           /\ Goto(p, IF L + 1 < MAX_LEVELS[p] THEN "tree_malloc_level"
                                               ELSE "tree_local_done")
    /\ UNCHANGED <<treeFrame, exit_status, idx, mallocs, NUM_GROUPS, LOCAL_DONE, ELAPSED_MS,
                   wrote, stdout, MAX_LEVELS, AGG_PRINTED, ROOT_GO, loc>>

\* lines 308-309
tree_local_done(p) ==
    /\ pc[p] = "tree_local_done"
    /\ LOCAL_DONE' = [LOCAL_DONE EXCEPT ![p] = <<DONE>>]
    /\ ELAPSED_MS' = [ELAPSED_MS EXCEPT ![p] = <<1>>]
    /\ Goto(p, "tree_top_flag")
    /\ UNCHANGED <<treeFrame, exit_status, lvl, idx, mallocs, NUM_GROUPS, wrote, stdout,
                   MAX_LEVELS, GROUP_DONE, AGG_PRINTED, ROOT_GO, loc>>
(* ---------------- propagate_up_and_maybe_exit -------------------------- *)
\* the flags of level L exist at PE host
tree_allocated(host, L) ==
    /\ GROUP_DONE[host] # NULL
    /\ GROUP_DONE[host][L] # NULL

\* lines 232-240 and 275: from level L on, the first level at which PE p is
\* the leader of a group that has a left child; if there is none, tiny_pause
\* and the next pass of the loop of line 206
RECURSIVE tree_level_from(_, _)
tree_level_from(p, L) ==
    IF L < MAX_LEVELS[p]
    THEN LET span_here == dyn_group_span_at_level(G_LEAF, L)
             my_gidx   == p \div span_here
         IN  IF p % span_here # 0 THEN tree_level_from(p, L + 1)
             ELSE IF left_child_idx(my_gidx) >= NUM_GROUPS[p][L - 1]
                  THEN tree_level_from(p, L + 1)
                  ELSE [pc |-> "tree_left_get", lvl |-> L]
    ELSE [pc |-> "tree_top_flag", lvl |-> 0]

\* lines 208-225: the early check of the top flag
tree_top_flag(p) ==
    /\ pc[p] = "tree_top_flag"
    /\ tree_allocated(ROOT_PE, MAX_LEVELS[p] - 1)
    /\ \E top_flag \in Read(GROUP_DONE[ROOT_PE][MAX_LEVELS[p] - 1][0]) :
         Goto(p, IF top_flag = 1
                 THEN IF p = ROOT_PE THEN "tree_agg_cas" ELSE "tree_wait_go"
                 ELSE "tree_leaf_scan")
    /\ idx' = [idx EXCEPT ![p] = 0]
    /\ UNCHANGED <<treeFrame, exit_status, lvl, mallocs, NUM_GROUPS, LOCAL_DONE, ELAPSED_MS,
                   wrote, stdout, MAX_LEVELS, GROUP_DONE, AGG_PRINTED, ROOT_GO, loc>>

\* lines 170-186: one pass of the loop over the PEs of the leaf group, idx[p]
\* the offset of pe from start
tree_leaf_scan(p) ==
    /\ pc[p] = "tree_leaf_scan"
    /\ LET span     == dyn_group_span_at_level(G_LEAF, 0)
           gidx     == p \div span
           g_leader == group_leader_pe(G_LEAF, 0, gidx)
           start    == g_leader
           end      == IF start + span > npes THEN npes ELSE start + span
           pe       == start + idx[p]
           v        == LOCAL_DONE[pe][1]
       IN  IF v # -1
           THEN /\ dyn_Goto(p, tree_level_from(p, 1))
                /\ idx' = [idx EXCEPT ![p] = 0]
           ELSE IF pe + 1 < end
                THEN /\ idx' = [idx EXCEPT ![p] = @ + 1]
                     /\ UNCHANGED <<pc, lvl>>
                ELSE /\ dyn_Goto(p, [pc |-> "tree_leaf_cas", lvl |-> 0])
                     /\ idx' = [idx EXCEPT ![p] = 0]
    /\ UNCHANGED <<treeFrame, exit_status, mallocs, NUM_GROUPS, LOCAL_DONE, ELAPSED_MS,
                   wrote, stdout, MAX_LEVELS, GROUP_DONE, AGG_PRINTED, ROOT_GO, loc>>

\* lines 189-195: the compare-and-swap of the leaf flag at the group leader
tree_leaf_cas(p) ==
    /\ pc[p] = "tree_leaf_cas"
    /\ LET gidx     == p \div dyn_group_span_at_level(G_LEAF, 0)
           g_leader == group_leader_pe(G_LEAF, 0, gidx)
       IN  /\ tree_allocated(g_leader, 0)
           /\ \E old \in {0, 1} : dyn_compare_swap(p, g_leader, 0, gidx, old)
    /\ dyn_Goto(p, tree_level_from(p, 1))
    /\ UNCHANGED <<treeFrame, exit_status, idx, mallocs, NUM_GROUPS, LOCAL_DONE, ELAPSED_MS,
                   stdout, MAX_LEVELS, AGG_PRINTED, ROOT_GO, loc>>

\* lines 242-250 (and 252 when there is no right child)
tree_left_get(p) ==
    /\ pc[p] = "tree_left_get"
    /\ LET L == lvl[p]
           my_gidx     == p \div dyn_group_span_at_level(G_LEAF, L)
           childL      == left_child_idx(my_gidx)
           childR      == right_child_idx(my_gidx)
           left_leader == group_leader_pe(G_LEAF, L - 1, childL)
       IN  \E left_done \in Read(GROUP_DONE[left_leader][L - 1][childL]) :
              IF childR < NUM_GROUPS[p][L - 1]
              THEN /\ loc' = [loc EXCEPT ![p] = left_done]
                   /\ dyn_Goto(p, [pc |-> "tree_right_get", lvl |-> L])
              ELSE /\ loc' = loc
                   /\ dyn_Goto(p, IF left_done # 0
                                  THEN [pc |-> "tree_group_cas", lvl |-> L]
                                  ELSE tree_level_from(p, L + 1))
    /\ UNCHANGED <<treeFrame, exit_status, idx, mallocs, NUM_GROUPS, LOCAL_DONE, ELAPSED_MS,
                   wrote, stdout, MAX_LEVELS, GROUP_DONE, AGG_PRINTED, ROOT_GO>>

\* lines 247-252
tree_right_get(p) ==
    /\ pc[p] = "tree_right_get"
    /\ LET L == lvl[p]
           my_gidx      == p \div dyn_group_span_at_level(G_LEAF, L)
           childR       == right_child_idx(my_gidx)
           right_leader == group_leader_pe(G_LEAF, L - 1, childR)
       IN  \E right_done \in Read(GROUP_DONE[right_leader][L - 1][childR]) :
              dyn_Goto(p, IF loc[p] # 0 /\ right_done # 0
                          THEN [pc |-> "tree_group_cas", lvl |-> L]
                          ELSE tree_level_from(p, L + 1))
    /\ loc' = [loc EXCEPT ![p] = 0]
    /\ UNCHANGED <<treeFrame, exit_status, idx, mallocs, NUM_GROUPS, LOCAL_DONE, ELAPSED_MS,
                   wrote, stdout, MAX_LEVELS, GROUP_DONE, AGG_PRINTED, ROOT_GO>>

\* lines 254-262: the leader marks its own group at level L
tree_group_cas(p) ==
    /\ pc[p] = "tree_group_cas"
    /\ LET L == lvl[p]  my_gidx == p \div dyn_group_span_at_level(G_LEAF, L)
       IN  /\ \E old_me_flag \in {0, 1} : dyn_compare_swap(p, p, L, my_gidx, old_me_flag)
           /\ dyn_Goto(p, IF L + 1 < MAX_LEVELS[p]
                          THEN [pc |-> "tree_parent_cas", lvl |-> L]
                          ELSE tree_level_from(p, L + 1))
    /\ UNCHANGED <<treeFrame, exit_status, idx, mallocs, NUM_GROUPS, LOCAL_DONE, ELAPSED_MS,
                   stdout, MAX_LEVELS, AGG_PRINTED, ROOT_GO, loc>>

\* lines 263-271: the parent group at level L + 1 is marked as well
tree_parent_cas(p) ==
    /\ pc[p] = "tree_parent_cas"
    /\ LET L == lvl[p]
           parent_idx    == (p \div dyn_group_span_at_level(G_LEAF, L)) \div 2
           parent_leader == group_leader_pe(G_LEAF, L + 1, parent_idx)
       IN  /\ tree_allocated(parent_leader, L + 1)
           /\ \E old \in {0, 1} : dyn_compare_swap(p, parent_leader, L + 1, parent_idx, old)
    /\ dyn_Goto(p, tree_level_from(p, lvl[p] + 1))
    /\ UNCHANGED <<treeFrame, exit_status, idx, mallocs, NUM_GROUPS, LOCAL_DONE, ELAPSED_MS,
                   stdout, MAX_LEVELS, AGG_PRINTED, ROOT_GO, loc>>
(* ---------------- root_print_then_release_and_exit --------------------- *)
\* lines 128-142: the print-once compare-and-swap and the aggregate line
tree_agg_cas(p) ==
    /\ pc[p] = "tree_agg_cas"
    /\ LET old == AGG_PRINTED[ROOT_PE][1]
           a   == dyn_aggregate(0, [sum |-> 0, minv |-> 0, maxv |-> 0])
       IN  /\ AGG_PRINTED' = [AGG_PRINTED EXCEPT ![ROOT_PE] = IF old = 0 THEN <<1>> ELSE @]
           /\ stdout' = IF old = 0 /\ p = ROOT_PE
                        THEN Append(stdout, [line |-> "ELAPSED_MS", npes |-> npes,
                                             min |-> a.minv, sum |-> a.sum,
                                             max |-> a.maxv])
                        ELSE stdout
    /\ Goto(p, IF p = ROOT_PE THEN "tree_release" ELSE "tree_top_flag")
    /\ UNCHANGED <<treeFrame, exit_status, lvl, idx, mallocs, NUM_GROUPS, LOCAL_DONE,
                   ELAPSED_MS, wrote, MAX_LEVELS, GROUP_DONE, ROOT_GO, loc>>

\* lines 146-147: shmem_int_p(ROOT_GO, 1, ROOT_PE) and shmem_quiet
tree_release(p) ==
    /\ pc[p] = "tree_release"
    /\ ROOT_GO' = [ROOT_GO EXCEPT ![ROOT_PE] = <<1>>]
    /\ wrote' = wrote \cup {<<p, ROOT_PE, "ROOT_GO", 0, 0, 0>>}
    /\ Goto(p, "tree_root_exit")
    /\ UNCHANGED <<treeFrame, exit_status, lvl, idx, mallocs, NUM_GROUPS, LOCAL_DONE,
                   ELAPSED_MS, stdout, MAX_LEVELS, GROUP_DONE, AGG_PRINTED, loc>>

\* lines 156-160: the grace period of 2 ms, shmem_quiet and
\* shmem_global_exit(0); the sleep delays only the root
tree_root_exit(p) ==
    /\ pc[p] = "tree_root_exit"
    /\ tree_global_exit(p)
    /\ UNCHANGED <<treeFrame, lvl, idx, mallocs, NUM_GROUPS, LOCAL_DONE, ELAPSED_MS, stdout,
                   MAX_LEVELS, GROUP_DONE, AGG_PRINTED, ROOT_GO, loc>>

\* lines 218-220: a non-root PE leaves the loop once ROOT_GO is not 0
tree_wait_go(p) ==
    /\ pc[p] = "tree_wait_go"
    /\ ROOT_GO[ROOT_PE][1] # 0
    /\ Goto(p, "tree_exit")
    /\ UNCHANGED <<treeFrame, exit_status, lvl, idx, mallocs, NUM_GROUPS, LOCAL_DONE,
                   ELAPSED_MS, wrote, stdout, MAX_LEVELS, GROUP_DONE, AGG_PRINTED, ROOT_GO,
                   loc>>

\* lines 221-222: shmem_quiet and shmem_global_exit(0)
tree_exit(p) ==
    /\ pc[p] = "tree_exit"
    /\ tree_global_exit(p)
    /\ UNCHANGED <<treeFrame, lvl, idx, mallocs, NUM_GROUPS, LOCAL_DONE, ELAPSED_MS, stdout,
                   MAX_LEVELS, GROUP_DONE, AGG_PRINTED, ROOT_GO, loc>>

TreeNext ==
    \/ \E p \in PEs : tree_main_malloc(p)
    \/ \E p \in PEs : tree_main_init(p)
    \/ \E p \in PEs : tree_malloc_tables(p)
    \/ \E p \in PEs : tree_malloc_level(p)
    \/ \E p \in PEs : tree_init_level(p)
    \/ \E p \in PEs : tree_local_done(p)
    \/ \E p \in PEs : tree_top_flag(p)
    \/ \E p \in PEs : tree_leaf_scan(p)
    \/ \E p \in PEs : tree_leaf_cas(p)
    \/ \E p \in PEs : tree_left_get(p)
    \/ \E p \in PEs : tree_right_get(p)
    \/ \E p \in PEs : tree_group_cas(p)
    \/ \E p \in PEs : tree_parent_cas(p)
    \/ \E p \in PEs : tree_agg_cas(p)
    \/ \E p \in PEs : tree_release(p)
    \/ \E p \in PEs : tree_root_exit(p)
    \/ \E p \in PEs : tree_wait_go(p)
    \/ \E p \in PEs : tree_exit(p)

TreeSpec == TreeInit /\ [][TreeNext]_vars
(* ===================== properties of global_done_tree.c ================ *)
\* the step is the root's call of shmem_global_exit(0) (line 160)
TreeRootExitCall == <<ROOT_PE, ROOT_PE, "shmem_global_exit", 0, 0, 0>> \in wrote' \ wrote
\* PE q has read ROOT_GO # 0 (line 218) and reads nothing at the root any more
TreeReadsOver(q) == pc[q] = "tree_exit"

\* C23 (root exits last, static binary-tree variant): in every interleaving
\* the root PE reaches its shmem_global_exit only after every non-root PE has
\* finished its last remote read of ROOT_GO / GROUP_DONE at the root, so no
\* remote operation is issued against the root after the root has exited.
C23_RootExitsLast ==
    [][TreeRootExitCall => \A q \in PEs \ {ROOT_PE} : TreeReadsOver(q)]_vars

\* the root has released and is at its exit while a non-root PE still polls
\* ROOT_GO at the root
C23_Witness ==
    /\ pc[ROOT_PE] = "tree_root_exit"
    /\ ROOT_GO[ROOT_PE] = <<1>>
    /\ \E q \in PEs \ {ROOT_PE} : pc[q] = "tree_wait_go"

\* C24 (static binary-tree safety): GROUP_DONE[0][g] is 1 only when every
\* member of leaf group g has LOCAL_DONE = -1, GROUP_DONE[L][g] for L >= 1 is
\* 1 only when all existing child groups at level L-1 are done, and therefore
\* the top-level flag is 1 and any PE exits only after every PE has set
\* LOCAL_DONE = -1, for every N and G (N > 2G, three or more levels, included).
C24_TreeSafety ==
    /\ \A g \in DynLeafGroups :
          DynFlag(0, g) = 1 => \A q \in DynMembers(g) : Finished(q)
    /\ \A L \in 1 .. DynLevels - 1 : \A g \in DynGroups(L) :
          DynFlag(L, g) = 1 => \A c \in DynChildren(L, g) : DynFlag(L - 1, c) = 1
    /\ DynFlag(DynLevels - 1, 0) = 1 => \A q \in PEs : Finished(q)
    /\ (\E p \in PEs : <<p, p, "shmem_global_exit", 0, 0, 0>> \in wrote) =>
          \A q \in PEs : Finished(q)

\* three leaf groups of one PE (N > 2G): PE 0 marked level-1 group 0 and then
\* the top group (lines 262-265) while level-1 group 1 is not done and PE 2
\* has LOCAL_DONE = 0
C24_Witness ==
    /\ npes = 3 /\ G_LEAF = 1
    /\ DynMarkers(1, 0) = {0} /\ DynMarkers(2, 0) = {0}
    /\ DynFlag(2, 0) = 1 /\ DynFlag(1, 1) = 0
    /\ ~Finished(2)
(* ===================== properties of global_done_star.c ================ *)
StarGroups == 0 .. GroupsAt(0) - 1
StarMembers(g) == {q \in PEs : q \div G_LEAF = g}
\* the put of PE q into its slot GROUP_PE_DONE[g][i] has landed at the anchor
StarSlotWritten(q) ==
    <<q, Owner(0, q \div G_LEAF), "GROUP_PE_DONE", 0, q \div G_LEAF, q % G_LEAF>> \in wrote
\* ROOT_GROUP_DONE[g] in the memory of the root
StarRootFlag(g) ==
    IF ROOT_GROUP_DONE[ROOT_PE] = NULL THEN UNINIT ELSE ROOT_GROUP_DONE[ROOT_PE][g]

\* C25 (flat STAR safety): ROOT_GROUP_DONE[g] at the root becomes -1 only
\* after every member PE of group g has written its slot GROUP_PE_DONE[g][i]
\* = -1 at the group anchor, and the root writes -1 into any PE's
\* GLOBAL_TERMINATION_READY only after ROOT_GROUP_DONE[g] == -1 for all groups
\* g, hence only after all N PEs published.
C25_StarSafety ==
    /\ \A w \in Writes : w[3] = "ROOT_GROUP_DONE" =>
          /\ w[1] = Owner(0, w[5]) /\ w[2] = ROOT_PE /\ w[5] \in StarGroups
          /\ \A q \in StarMembers(w[5]) : StarSlotWritten(q)
    /\ \A g \in StarGroups : StarRootFlag(g) = DONE =>
          \A q \in StarMembers(g) : StarSlotWritten(q)
    /\ \A w \in Writes : w[3] = "GLOBAL_TERMINATION_READY" =>
          /\ w[1] = ROOT_PE
          /\ \A g \in StarGroups : StarRootFlag(g) = DONE
          /\ \A q \in PEs : LOCAL_DONE[q] = <<DONE>> /\ StarSlotWritten(q)

\* two groups, the second a tail group anchored at PE 2: the root has stored
\* its own gate and its puts into the two other gates are not all delivered
C25_Witness ==
    /\ npes = 3 /\ G_LEAF = 2
    /\ GateOpen(ROOT_PE)
    /\ \E m \in inflight : m.obj = "GLOBAL_TERMINATION_READY" /\ m.dst = 2
    /\ StarRootFlag(1) = DONE

(* ---------------- fairness for global_done_star.c ----------------------- *)
StarPE(p) ==
    /\ p \in PEs
    /\ \/ star_main_malloc_LOCAL_DONE(p) \/ star_main_malloc_ELAPSED_MS(p)
       \/ star_main_init_LOCAL_DONE(p) \/ star_main_init_ELAPSED_MS(p)
       \/ star_malloc_GROUP_PE_DONE(p) \/ star_malloc_GROUP_PE_DONE_g(p)
       \/ star_zero_GROUP_PE_DONE(p)
       \/ star_malloc_ROOT_GROUP_DONE(p) \/ star_zero_ROOT_GROUP_DONE(p)
       \/ star_malloc_GLOBAL_TERMINATION_READY(p)
       \/ star_zero_GLOBAL_TERMINATION_READY(p)
       \/ rst_local_done(p) \/ rst_put(p) \/ rst_quiet(p) \/ rst_wait(p)
       \/ rst_notify(p) \/ rst_notify_quiet(p) \/ rst_root_wait(p)
       \/ rst_aggregate(p) \/ rst_broadcast(p) \/ rst_broadcast_quiet(p)
       \/ rst_gate_wait(p) \/ rst_barrier(p) \/ rst_barrier_wait(p)
       \/ rst_all_clear(p) \/ star_shmem_finalize(p)

\* each PE is its own process and the substrate completes every put
StarLiveSpec ==
    /\ StarSpec
    /\ \A p \in 0 .. MaxN - 1 : WF_vars(StarPE(p))
    /\ WF_vars(Delivery)

\* every allocation of allocate_star_flags has succeeded on every PE: the
\* PEs are in, or about to enter, run_star_termination
StarAllocated == \A p \in PEs : GLOBAL_TERMINATION_READY[p] # NULL

\* C26 (flat STAR liveness and final proof): every PE eventually passes the
\* wait on its gate and the final barrier, and in any state where some PE has
\* passed the final barrier (in particular when the root prints ALL_CLEAR)
\* every PE's gate equals -1.
C26_StarLiveness ==
    /\ StarAllocated ~> (\A p \in PEs : pc[p] \in StarAfterGate /\ GateOpen(p))
    /\ StarAllocated ~> AllFinished
    /\ [](\A p \in PEs : left_final_barrier(p) => \A q \in PEs : GateOpen(q))

\* three groups of one PE: every PE has finished and the last line printed
\* is the root's ALL_CLEAR
C26_Witness ==
    /\ npes = 3 /\ G_LEAF = 1 /\ StarRun /\ AllFinished
    /\ Len(stdout) = 2 /\ stdout[2].line = "ALL_CLEAR"

(* ======================================================================= *)
(* global_done_original.c: every PE scans LOCAL_DONE of all PEs once       *)
(* ======================================================================= *)
\* what no step of global_done_original.c touches
origFrame == <<heldVars, planVars, lvl, grp, starVars, lvlVars, agg, inflight, MAX_LEVELS,
               GROUP_DONE, GROUP_LEADER, LEAF_COUNT, ROOT_GO, EXIT_ACKS, fetched, elected>>

\* state of main of global_done_original.c after the start barrier (line
\* 144), GLOBAL_DONE_DEBUG unset (g_debug = 0, quiet mode); the program has no
\* groups, G_LEAF and K keep one value
OrigInit ==
    /\ npes \in 1 .. MaxN
    /\ G_LEAF = 1
    /\ K = 2
    /\ pc = [p \in PEs |-> "orig_main_malloc"]
    /\ InitMemory

\* lines 148-153: the three allocations of main and the NULL check
orig_main_malloc(p) ==
    /\ pc[p] = "orig_main_malloc"
    /\ shmem_malloc_returns(p)
    /\ mallocs' = [mallocs EXCEPT ![p] = @ + 3]
    /\ \E ok \in BOOLEAN :
         IF ok
         THEN /\ LOCAL_DONE' = [LOCAL_DONE EXCEPT ![p] = <<UNINIT>>]
              /\ ELAPSED_MS' = [ELAPSED_MS EXCEPT ![p] = <<UNINIT>>]
              /\ AGG_PRINTED' = [AGG_PRINTED EXCEPT ![p] = <<UNINIT>>]
              /\ Goto(p, "orig_main_init")
              /\ UNCHANGED exit_status
         ELSE /\ shmem_global_exit("1")
              /\ UNCHANGED <<LOCAL_DONE, ELAPSED_MS, AGG_PRINTED>>
    /\ UNCHANGED <<origFrame, idx, loc, rma, wrote, stdout>>

\* lines 156-161
orig_main_init(p) ==
    /\ pc[p] = "orig_main_init"
    /\ LOCAL_DONE' = [LOCAL_DONE EXCEPT ![p] = <<NOT_DONE>>]
    /\ ELAPSED_MS' = [ELAPSED_MS EXCEPT ![p] = <<0>>]
    /\ AGG_PRINTED' = [AGG_PRINTED EXCEPT ![p] = <<0>>]
    /\ Goto(p, "orig_local_done")
    /\ UNCHANGED <<origFrame, exit_status, idx, mallocs, loc, rma, wrote, stdout>>

(* ---------------- initiate_global_done --------------------------------- *)
\* lines 75-83: loc[p] is global_done_flag, idx[p] is pe_id
orig_local_done(p) ==
    /\ pc[p] = "orig_local_done"
    /\ LOCAL_DONE' = [LOCAL_DONE EXCEPT ![p] = <<DONE>>]
    /\ ELAPSED_MS' = [ELAPSED_MS EXCEPT ![p] = <<1>>]
    /\ loc' = [loc EXCEPT ![p] = 0]
    /\ idx' = [idx EXCEPT ![p] = 0]
    /\ Goto(p, "orig_scan")
    /\ UNCHANGED <<origFrame, exit_status, mallocs, AGG_PRINTED, rma, wrote, stdout>>

\* mutant: a scan that broke off early counts as complete
orig_all_done_partial(global_done_flag) == global_done_flag < 0

\* mutant: the sum is compared with the number of remote PEs
orig_all_done_remote(global_done_flag) == global_done_flag = (-1) * (npes - 1)

\* line 100: the sum of the values scanned is -npes
orig_all_done(global_done_flag) == global_done_flag = (-1) * npes

\* lines 86-100: one iteration of the scan, the value read recorded in rma;
\* after the loop the test of line 100
orig_scan(p) ==
    /\ pc[p] = "orig_scan"
    /\ LOCAL_DONE[idx[p]] # NULL
    /\ LET pe_id == idx[p]
       IN  \E local_done_value \in Read(LOCAL_DONE[pe_id][1]) :
              LET flag  == IF local_done_value = 0 THEN loc[p]
                                                   ELSE loc[p] + local_done_value
                  over  == local_done_value = 0 \/ ~(pe_id + 1 < npes)
              IN  /\ rma' = rma \cup {<<p, pe_id, local_done_value>>}
                  /\ loc' = [loc EXCEPT ![p] = flag]
                  /\ idx' = [idx EXCEPT ![p] = IF over THEN 0 ELSE pe_id + 1]
                  /\ Goto(p, IF ~over THEN "orig_scan"
                             ELSE IF orig_all_done(flag) THEN "orig_agg_cas"
                                                      ELSE "orig_shmem_finalize")
    /\ UNCHANGED <<origFrame, exit_status, mallocs, LOCAL_DONE, ELAPSED_MS, AGG_PRINTED,
                   wrote, stdout>>

\* lines 109-116: the aggregation loop from pe_id on over the values val read
\* from the PEs; a is sum, min and max
RECURSIVE orig_aggregate(_, _, _)
orig_aggregate(pe_id, val, a) ==
    IF pe_id < npes
    THEN LET mm   == IF pe_id = 0 THEN [a EXCEPT !.minv = val[0], !.maxv = val[0]] ELSE a
             minv == IF val[pe_id] < mm.minv THEN val[pe_id] ELSE mm.minv
             maxv == IF val[pe_id] > mm.maxv THEN val[pe_id] ELSE mm.maxv
         IN  orig_aggregate(pe_id + 1, val,
                            [sum |-> a.sum + val[pe_id], minv |-> minv, maxv |-> maxv])
    ELSE a

\* lines 109-131, quiet mode: the aggregation loop, the compare-and-swap on
\* the root's AGG_PRINTED and the aggregate line
orig_agg_cas(p) ==
    /\ pc[p] = "orig_agg_cas"
    /\ \A q \in PEs : ELAPSED_MS[q] # NULL
    /\ \E old \in Read(AGG_PRINTED[ROOT_PE][1]) :
       \E val \in [PEs -> Garbage \cup {0, 1}] :
         /\ \A q \in PEs : val[q] \in Read(ELAPSED_MS[q][1])
         /\ LET a == orig_aggregate(0, val, [sum |-> 0, minv |-> 0, maxv |-> 0])
                should_print_aggregate == old = 0
            IN  /\ AGG_PRINTED' = [AGG_PRINTED EXCEPT ![ROOT_PE] =
                                      IF old = 0 THEN <<1>> ELSE <<old>>]
                /\ wrote' = IF old = 0
                            THEN wrote \cup {<<p, ROOT_PE, "AGG_PRINTED", 0, 0, 0>>}
                            ELSE wrote
                /\ stdout' = IF should_print_aggregate
                             THEN Append(stdout, [line |-> "ELAPSED_MS", npes |-> npes,
                                                  min |-> a.minv, sum |-> a.sum,
                                                  max |-> a.maxv])
                             ELSE stdout
    /\ Goto(p, "orig_global_done")
    /\ UNCHANGED <<origFrame, exit_status, idx, mallocs, LOCAL_DONE, ELAPSED_MS, loc, rma>>

\* lines 133 and 61-67: global_done(), the call recorded in wrote
orig_global_done(p) ==
    /\ pc[p] = "orig_global_done"
    /\ shmem_global_exit("0")
    /\ wrote' = wrote \cup {<<p, p, "shmem_global_exit", 0, 0, 0>>}
    /\ UNCHANGED <<origFrame, idx, mallocs, LOCAL_DONE, ELAPSED_MS, AGG_PRINTED, loc, rma,
                   stdout>>

\* line 167: shmem_finalize is collective: PE p enters it and waits inside;
\* when p is the last PE to enter, it returns on every PE
orig_shmem_finalize(p) ==
    /\ pc[p] = "orig_shmem_finalize"
    /\ IF \A q \in PEs \ {p} : pc[q] = "orig_in_shmem_finalize"
       THEN pc' = [q \in PEs |-> "done"]
       ELSE Goto(p, "orig_in_shmem_finalize")
    /\ UNCHANGED <<origFrame, exit_status, idx, mallocs, LOCAL_DONE, ELAPSED_MS, AGG_PRINTED,
                   loc, rma, wrote, stdout>>

OrigNext ==
    \/ \E p \in PEs : orig_main_malloc(p)
    \/ \E p \in PEs : orig_main_init(p)
    \/ \E p \in PEs : orig_local_done(p)
    \/ \E p \in PEs : orig_scan(p)
    \/ \E p \in PEs : orig_agg_cas(p)
    \/ \E p \in PEs : orig_global_done(p)
    \/ \E p \in PEs : orig_shmem_finalize(p)

OrigSpec == OrigInit /\ [][OrigNext]_vars
(* ================= properties of global_done_original.c ================ *)
\* the values PE p's scan has read from PE q
OrigRead(p, q) == {r[3] : r \in {x \in rma : x[1] = p /\ x[2] = q}}
\* the PEs that have called global_done(), or are committed to the call
OrigDetectors ==
    {w[1] : w \in {v \in wrote : v[3] = "shmem_global_exit"}}
       \cup {p \in PEs : pc[p] \in {"orig_agg_cas", "orig_global_done"}}

OrigGaveUp(p) == pc[p] \in {"orig_shmem_finalize", "orig_in_shmem_finalize", "done"}
\* PE p is scanning and has read -1 from every PE so far
OrigOnTrack(p) == pc[p] = "orig_scan" /\ loc[p] = (-1) * idx[p]

\* C28 (scan-based original variant detection): in every interleaving in
\* which all N PEs call initiate_global_done, at least one PE (the one whose
\* store LOCAL_DONE = -1 is last) observes all-done in its scan and invokes
\* global termination: the job never ends, or comes to rest, with every PE
\* having finished its scan and none having detected global completion.
C28_ScanDetection ==
    /\ ~(\A p \in PEs : OrigGaveUp(p))
    /\ \A p \in PEs : pc[p] # "done"
    /\ (exit_status = "running" /\ \A q \in PEs : Finished(q)) =>
          \E p \in PEs : OrigOnTrack(p) \/ p \in OrigDetectors

\* three PEs have all stored LOCAL_DONE = -1: two finished their scans
\* without detecting and wait in shmem_finalize, the last one detected
C28_Witness ==
    /\ npes = 3 /\ \A q \in PEs : Finished(q)
    /\ Cardinality({p \in PEs : pc[p] = "orig_in_shmem_finalize"}) = 2
    /\ \E p \in PEs : pc[p] = "orig_global_done"

\* the PEs whose compare-and-swap on the root's AGG_PRINTED returned old == 0
OrigPrinters == {w[1] : w \in {v \in wrote : v[3] = "AGG_PRINTED"}}
\* the aggregate lines printed so far
OrigAggregateLines == {i \in 1 .. Len(stdout) : stdout[i].line = "ELAPSED_MS"}

\* C29 (aggregate printed once, quiet mode): among all PEs that detect
\* all-done exactly one obtains old == 0 from the compare-and-swap on the
\* root's AGG_PRINTED and prints the aggregate line; AGG_PRINTED at the root
\* goes 0 -> 1 once and never returns to 0.
C29_PrintedOnce ==
    [][ /\ Cardinality(OrigPrinters') <= 1
        /\ Cardinality(OrigAggregateLines') = Cardinality(OrigPrinters')
        /\ exit_status' = "0" => Cardinality(OrigPrinters') = 1
        /\ AGG_PRINTED[ROOT_PE] = <<1>> => AGG_PRINTED'[ROOT_PE] = <<1>>
      ]_vars

\* two PEs: PE 1 detected on a value of -1 read from LOCAL_DONE of PE 0 before
\* PE 0 stored to it, PE 0 then initialised AGG_PRINTED again and detected as
\* well; both obtained old == 0 and two aggregate lines are printed
C29_Witness ==
    /\ npes = 2
    /\ OrigPrinters = {0, 1}
    /\ Cardinality(OrigAggregateLines) = 2

(* ======================================================================= *)
(* incomplete_versions/treedone.c: termination over a k-ary heap tree      *)
(* ======================================================================= *)
\* largest number of PEs of the heap tree: from 4 PEs on with fanout 2 PE 1 is
\* both a child and a parent
TdMaxN == 5

\* what no step of treedone.c touches
tdFrame == <<cfgVars, mpiVars, planVars, lvl, grp, ELAPSED_MS, starVars, lvlVars, agg, rma, topology,
             MAX_LEVELS, GROUP_DONE, GROUP_LEADER, LEAF_COUNT, AGG_PRINTED, ROOT_GO,
             EXIT_ACKS, fetched, elected>>

\* state of main of treedone.c (TREE_DONE_TEST) after shmem_init (line 145);
\* K is td->fanout after line 62, which raises --fanout to at least 2
TdInit ==
    /\ npes \in 1 .. TdMaxN
    /\ G_LEAF = 1
    /\ K \in 2 .. MaxK
    /\ pc = [p \in PEs |-> "td_init_malloc"]
    /\ InitMemory

\* mutant: a child takes the slot of its rank
slot_index_rank(child, parent, fanout) == child % fanout

\* lines 38-41
slot_index(child, parent, fanout) == child - (fanout * parent + 1)

\* mutant: a parent waits for one child fewer than it has
build_topology_short(me, np, fanout) ==
    LET first == fanout * me + 1
        last  == first + fanout - 1
    IN  [parent |-> IF me = 0 THEN -1 ELSE (me - 1) \div fanout,
         first_child |-> IF first >= np THEN -1 ELSE first,
         last_child |-> IF first >= np THEN -1 ELSE IF last >= np THEN np - 1 ELSE last,
         num_children |-> IF first >= np THEN 0
                          ELSE (IF last >= np THEN np - 1 ELSE last) - first]

\* mutant: a parent waits on all fanout slots, filled or not
build_topology_full(me, np, fanout) ==
    LET first == fanout * me + 1
        last  == first + fanout - 1
    IN  [parent |-> IF me = 0 THEN -1 ELSE (me - 1) \div fanout,
         first_child |-> IF first >= np THEN -1 ELSE first,
         last_child |-> IF first >= np THEN -1 ELSE IF last >= np THEN np - 1 ELSE last,
         num_children |-> IF first >= np THEN 0 ELSE fanout]

\* lines 43-54: the fields build_topology stores into td
build_topology(me, np, fanout) ==
    LET first == fanout * me + 1
        last  == first + fanout - 1
    IN  [parent |-> IF me = 0 THEN -1 ELSE (me - 1) \div fanout,
         first_child |-> IF first >= np THEN -1 ELSE first,
         last_child |-> IF first >= np THEN -1 ELSE IF last >= np THEN np - 1 ELSE last,
         num_children |-> IF first >= np THEN 0
                          ELSE (IF last >= np THEN np - 1 ELSE last) - first + 1]

\* td of PE p after treedone_init
td(p) == build_topology(p, npes, K)

(* ---------------- shmem_barrier_all ------------------------------------ *)
\* p enters shmem_barrier_all, which completes the puts p issued before it
td_barrier_enter(p) == barriers' = [barriers EXCEPT ![p] = @ + 1]

\* mutant: shmem_barrier_all returns without waiting for the other PEs
td_barrier_returns_alone(p) == TRUE

\* shmem_barrier_all returns on p once every PE has entered the same call
td_barrier_returns(p) == \A q \in PEs : barriers[q] >= barriers[p]

(* ---------------- treedone_init (lines 58-81) -------------------------- *)
\* lines 60-74: the three allocations and the NULL check (the message of
\* line 72 goes to stderr)
td_init_malloc(p) ==
    /\ pc[p] = "td_init_malloc"
    /\ shmem_malloc_returns(p)
    /\ mallocs' = [mallocs EXCEPT ![p] = @ + 3]
    /\ \E ok \in BOOLEAN :
         IF ok
         THEN /\ LOCAL_DONE' = [LOCAL_DONE EXCEPT ![p] = <<UNINIT>>]
              /\ GLOBAL_DONE' = [GLOBAL_DONE EXCEPT ![p] = <<UNINIT>>]
              /\ child_vals' = [child_vals EXCEPT ![p] = Array(K, UNINIT)]
              /\ Goto(p, "td_init_store")
              /\ UNCHANGED exit_status
         ELSE /\ shmem_global_exit("1")
              /\ UNCHANGED <<LOCAL_DONE, GLOBAL_DONE, child_vals>>
    /\ UNCHANGED <<tdFrame, idx, loc, barriers, inflight, wrote, stdout>>

\* lines 76-80: the stores of the initial values, then p enters the barrier
td_init_store(p) ==
    /\ pc[p] = "td_init_store"
    /\ LOCAL_DONE' = [LOCAL_DONE EXCEPT ![p] = <<NOT_DONE>>]
    /\ GLOBAL_DONE' = [GLOBAL_DONE EXCEPT ![p] = <<0>>]
    /\ child_vals' = [child_vals EXCEPT ![p] = Array(K, 0)]
    /\ td_barrier_enter(p)
    /\ Goto(p, "td_init_barrier")
    /\ UNCHANGED <<tdFrame, exit_status, idx, loc, mallocs, inflight, wrote, stdout>>

(* ---------------- main of the self-test (lines 144-176) ---------------- *)
\* the barrier of line 80 returns; lines 156-157: PE 0 prints the header and
\* p enters the barrier of main
td_main_header(p) ==
    /\ pc[p] = "td_init_barrier"
    /\ td_barrier_returns(p)
    /\ stdout' = IF p = 0
                 THEN Append(stdout, [line |-> "PEs", npes |-> npes, fanout |-> K])
                 ELSE stdout
    /\ td_barrier_enter(p)
    /\ Goto(p, "td_main_barrier")
    /\ UNCHANGED <<tdFrame, exit_status, idx, loc, mallocs, LOCAL_DONE, GLOBAL_DONE,
                   child_vals, inflight, wrote>>

\* the barrier of line 157 returns; lines 160-163: p sleeps (np - me - 1) * 50
\* milliseconds, which is any delay, and PE 0 prints that it calls
td_main_sleep(p) ==
    /\ pc[p] = "td_main_barrier"
    /\ td_barrier_returns(p)
    /\ stdout' = IF p = 0
                 THEN Append(stdout, [line |-> "calling", pe |-> p])
                 ELSE stdout
    /\ Goto(p, "td_local_done")
    /\ UNCHANGED <<tdFrame, exit_status, idx, loc, mallocs, LOCAL_DONE, GLOBAL_DONE,
                   child_vals, barriers, inflight, wrote>>

(* ---------------- treedone_collective_terminate (lines 95-132) --------- *)
\* lines 96-102: idx[p] is i and loc[p] is seen; the call is recorded in wrote
td_local_done(p) ==
    /\ pc[p] = "td_local_done"
    /\ LOCAL_DONE' = [LOCAL_DONE EXCEPT ![p] = <<DONE>>]
    /\ wrote' = wrote \cup {<<p, p, "LOCAL_DONE", 0, 0, 0>>}
    /\ idx' = [idx EXCEPT ![p] = 0]
    /\ loc' = [loc EXCEPT ![p] = 0]
    /\ Goto(p, IF td(p).num_children > 0 THEN "td_scan" ELSE "td_report")
    /\ UNCHANGED <<tdFrame, exit_status, mallocs, GLOBAL_DONE, child_vals, barriers,
                   inflight, stdout>>

\* lines 103-108: one read of child_vals[i]; after the last slot the loop
\* ends when every slot read 1 and starts over otherwise
td_scan(p) ==
    /\ pc[p] = "td_scan"
    /\ LET need == td(p).num_children
           seen == loc[p] + (IF child_vals[p][idx[p]] = 1 THEN 1 ELSE 0)
       IN  IF idx[p] + 1 < need
           THEN /\ idx' = [idx EXCEPT ![p] = @ + 1]
                /\ loc' = [loc EXCEPT ![p] = seen]
                /\ UNCHANGED pc
           ELSE /\ idx' = [idx EXCEPT ![p] = 0]
                /\ loc' = [loc EXCEPT ![p] = 0]
                /\ Goto(p, IF seen = need THEN "td_report" ELSE "td_scan")
    /\ UNCHANGED <<tdFrame, exit_status, mallocs, LOCAL_DONE, GLOBAL_DONE, child_vals,
                   barriers, inflight, wrote, stdout>>

\* lines 112-118: a non-root puts 1 into its slot at its parent; a slot
\* outside [0, fanout) fails the assert of line 116, which aborts the job
td_signal_parent(p) ==
    /\ pc[p] = "td_report"
    /\ p # 0
    /\ LET parent == td(p).parent
           slot == slot_index(p, parent, K)
       IN  IF slot >= 0 /\ slot < K
           THEN /\ inflight' = inflight \cup {Put(p, parent, "child_vals", 0, 0, slot)}
                /\ Goto(p, "td_wait_global")
                /\ UNCHANGED exit_status
           ELSE /\ shmem_global_exit("SIGABRT")
                /\ UNCHANGED inflight
    /\ UNCHANGED <<tdFrame, idx, loc, mallocs, LOCAL_DONE, GLOBAL_DONE, child_vals,
                   barriers, wrote, stdout>>

\* lines 121-122: the root stores -1 into its own GLOBAL_DONE
td_root_self(p) ==
    /\ pc[p] = "td_report"
    /\ p = 0
    /\ GLOBAL_DONE' = [GLOBAL_DONE EXCEPT ![p] = <<DONE>>]
    /\ wrote' = wrote \cup {<<p, p, "GLOBAL_DONE", 0, 0, 0>>}
    /\ shmem_quiet_returns(p)
    /\ idx' = [idx EXCEPT ![p] = 0]
    /\ Goto(p, IF 0 < npes THEN "td_bcast" ELSE "td_bcast_quiet")
    /\ UNCHANGED <<tdFrame, exit_status, loc, mallocs, LOCAL_DONE, child_vals, barriers,
                   inflight, stdout>>

\* lines 123-126: one pass of the broadcast loop, idx[p] is pe
td_bcast(p) ==
    /\ pc[p] = "td_bcast"
    /\ inflight' = IF idx[p] = p THEN inflight
                   ELSE inflight \cup {Put(p, idx[p], "GLOBAL_DONE", 0, 0, 0)}
    /\ idx' = [idx EXCEPT ![p] = @ + 1]
    /\ Goto(p, IF idx[p] + 1 < npes THEN "td_bcast" ELSE "td_bcast_quiet")
    /\ UNCHANGED <<tdFrame, exit_status, loc, mallocs, LOCAL_DONE, GLOBAL_DONE, child_vals,
                   barriers, wrote, stdout>>

\* line 127
td_bcast_quiet(p) ==
    /\ pc[p] = "td_bcast_quiet"
    /\ shmem_quiet_returns(p)
    /\ Goto(p, "td_wait_global")
    /\ UNCHANGED <<tdFrame, exit_status, idx, loc, mallocs, LOCAL_DONE, GLOBAL_DONE,
                   child_vals, barriers, inflight, wrote, stdout>>

\* line 131: the loop ends once the local GLOBAL_DONE reads -1
td_wait_global(p) ==
    /\ pc[p] = "td_wait_global"
    /\ GLOBAL_DONE[p] = <<DONE>>
    /\ Goto(p, "td_verify")
    /\ UNCHANGED <<tdFrame, exit_status, idx, loc, mallocs, LOCAL_DONE, GLOBAL_DONE,
                   child_vals, barriers, inflight, wrote, stdout>>

\* the substrate completes a put at its target: 1 lands in a slot of
\* child_vals, -1 in GLOBAL_DONE
td_Deliver(m) ==
    /\ exit_status = "running"
    /\ m \in inflight
    /\ m.obj \in {"child_vals", "GLOBAL_DONE"}
    /\ IF m.obj = "child_vals"
       THEN /\ child_vals[m.dst] # NULL
            /\ child_vals' = [child_vals EXCEPT ![m.dst][m.i] = 1]
            /\ UNCHANGED GLOBAL_DONE
       ELSE /\ GLOBAL_DONE[m.dst] # NULL
            /\ GLOBAL_DONE' = [GLOBAL_DONE EXCEPT ![m.dst] = <<DONE>>]
            /\ UNCHANGED child_vals
    /\ inflight' = inflight \ {m}
    /\ wrote' = wrote \cup {<<m.src, m.dst, m.obj, m.l, m.g, m.i>>}
    /\ UNCHANGED <<tdFrame, exit_status, pc, idx, loc, mallocs, LOCAL_DONE, barriers,
                   stdout>>

\* lines 167-173 and 84: a PE whose GLOBAL_DONE is not -1 ends the job with
\* status 2; otherwise PE 0 prints the success line and p enters the first
\* barrier of treedone_finalize
td_verify(p) ==
    /\ pc[p] = "td_verify"
    /\ IF GLOBAL_DONE[p] # <<DONE>>
       THEN /\ stdout' = Append(stdout, [line |-> "ERROR", pe |-> p])
            /\ shmem_global_exit("2")
            /\ UNCHANGED barriers
       ELSE /\ stdout' = IF p = 0
                         THEN Append(stdout, [line |-> "Success",
                                              GLOBAL_DONE |-> GLOBAL_DONE[p][1]])
                         ELSE stdout
            /\ shmem_quiet_returns(p)
            /\ td_barrier_enter(p)
            /\ Goto(p, "td_finalize_barrier")
            /\ UNCHANGED exit_status
    /\ UNCHANGED <<tdFrame, idx, loc, mallocs, LOCAL_DONE, GLOBAL_DONE, child_vals,
                   inflight, wrote>>

\* lines 84-89: the barrier returns, p frees its three objects and enters
\* the second barrier of treedone_finalize
td_finalize_free(p) ==
    /\ pc[p] = "td_finalize_barrier"
    /\ td_barrier_returns(p)
    /\ child_vals' = [child_vals EXCEPT ![p] = NULL]
    /\ GLOBAL_DONE' = [GLOBAL_DONE EXCEPT ![p] = NULL]
    /\ LOCAL_DONE' = [LOCAL_DONE EXCEPT ![p] = NULL]
    /\ td_barrier_enter(p)
    /\ Goto(p, "td_finalize_barrier2")
    /\ UNCHANGED <<tdFrame, exit_status, idx, loc, mallocs, inflight, wrote, stdout>>

\* lines 89 and 174-175: the barrier returns, shmem_finalize, return 0
td_shmem_finalize(p) ==
    /\ pc[p] = "td_finalize_barrier2"
    /\ td_barrier_returns(p)
    /\ Goto(p, "done")
    /\ UNCHANGED <<tdFrame, exit_status, idx, loc, mallocs, LOCAL_DONE, GLOBAL_DONE,
                   child_vals, barriers, inflight, wrote, stdout>>

TdNext ==
    \/ \E p \in PEs : td_init_malloc(p)
    \/ \E p \in PEs : td_init_store(p)
    \/ \E p \in PEs : td_main_header(p)
    \/ \E p \in PEs : td_main_sleep(p)
    \/ \E p \in PEs : td_local_done(p)
    \/ \E p \in PEs : td_scan(p)
    \/ \E p \in PEs : td_signal_parent(p)
    \/ \E p \in PEs : td_root_self(p)
    \/ \E p \in PEs : td_bcast(p)
    \/ \E p \in PEs : td_bcast_quiet(p)
    \/ \E p \in PEs : td_wait_global(p)
    \/ \E p \in PEs : td_verify(p)
    \/ \E p \in PEs : td_finalize_free(p)
    \/ \E p \in PEs : td_shmem_finalize(p)
    \/ \E m \in inflight : td_Deliver(m)

TdSpec == TdInit /\ [][TdNext]_vars
(* ================= properties of treedone.c ============================ *)
\* PE q has called treedone_collective_terminate: it executed line 96
TdCalled(q) == <<q, q, "LOCAL_DONE", 0, 0, 0>> \in wrote

\* the children of PE p in the heap tree, first_child .. last_child
TdChildren(p) == IF td(p).num_children > 0
                 THEN td(p).first_child .. td(p).last_child
                 ELSE {}

\* the puts issued so far, in flight or complete: <<writer, target, object,
\* l, g, i>>
TdIssued == wrote \cup {<<m.src, m.dst, m.obj, m.l, m.g, m.i>> : m \in inflight}

\* child c's 1 has landed in its slot at its parent p
TdReported(c, p) == <<c, p, "child_vals", 0, 0, slot_index(c, p, K)>> \in wrote

\* C30: a PE issues the put of 1 into a child_vals slot only at its parent,
\* only after it called treedone_collective_terminate itself and after the 1
\* of every one of its own children has landed in its child_vals; and -1 is
\* written into GLOBAL_DONE of any PE, by the root's store or by a put of the
\* root, only after every PE of the job has called
\* treedone_collective_terminate
C30_TreedoneSafety ==
    /\ \A w \in TdIssued :
         w[3] = "child_vals" =>
            /\ w[1] # 0
            /\ w[2] = td(w[1]).parent
            /\ TdCalled(w[1])
            /\ \A d \in TdChildren(w[1]) : TdReported(d, w[1])
    /\ \A w \in TdIssued :
         w[3] = "GLOBAL_DONE" => w[1] = 0 /\ \A q \in PEs : TdCalled(q)
    /\ \A q \in PEs :
         GLOBAL_DONE[q] = <<DONE>> => \A r \in PEs : TdCalled(r)

\* four or more PEs with fanout 2: PE 1, parent of PE 3, has reported to the
\* root after PE 3 reported to it, and the root's -1 has landed at PE 3
C30_Witness ==
    /\ npes >= 4
    /\ K = 2
    /\ TdReported(3, 1)
    /\ TdReported(1, 0)
    /\ <<0, 3, "GLOBAL_DONE", 0, 0, 0>> \in wrote
    /\ GLOBAL_DONE[3] = <<DONE>>
(* ---------------- fairness for treedone.c ------------------------------ *)
TdPE(p) ==
    /\ p \in PEs
    /\ \/ td_init_malloc(p) \/ td_init_store(p) \/ td_main_header(p) \/ td_main_sleep(p)
       \/ td_local_done(p) \/ td_scan(p) \/ td_signal_parent(p) \/ td_root_self(p)
       \/ td_bcast(p) \/ td_bcast_quiet(p) \/ td_wait_global(p) \/ td_verify(p)
       \/ td_finalize_free(p) \/ td_shmem_finalize(p)

TdDelivery == \E m \in inflight : td_Deliver(m)

\* each PE is its own process, whose sleep of line 161 ends, and the
\* substrate completes every put
TdLiveSpec ==
    /\ TdSpec
    /\ \A p \in 0 .. TdMaxN - 1 : WF_vars(TdPE(p))
    /\ WF_vars(TdDelivery)

\* the three allocations of treedone_init have succeeded on every PE
TdAllocated == exit_status = "running" /\ \A p \in PEs : mallocs[p] = 3

\* PE p has returned from treedone_collective_terminate
TdReturned(p) == pc[p] \in {"td_verify", "td_finalize_barrier", "td_finalize_barrier2", "done"}

\* C31: in the self-test, for every number of PEs and every fanout, in
\* whatever order the PEs call treedone_collective_terminate, every call
\* eventually returns; a PE that has just returned has GLOBAL_DONE = -1, so
\* the job never exits with status 2, and every PE reaches the end of main
C31_TreedoneLiveness ==
    /\ TdAllocated ~> (\A p \in PEs : TdReturned(p))
    /\ TdAllocated ~> AllFinished
    /\ [](\A p \in PEs : pc[p] \in {"td_verify", "td_finalize_barrier"}
                            => GLOBAL_DONE[p] = <<DONE>>)
    /\ [](exit_status \in {"running", "1"})

\* five PEs with fanout 2: every PE has returned with GLOBAL_DONE = -1 and
\* PE 0 has printed the success line
C31_Witness ==
    /\ npes = 5 /\ K = 2
    /\ \A p \in PEs : pc[p] = "td_finalize_barrier" /\ GLOBAL_DONE[p] = <<DONE>>
    /\ Len(stdout) = 3 /\ stdout[3].line = "Success" /\ stdout[3].GLOBAL_DONE = -1
(* ================= the heap topology alone ============================= *)
\* largest number of PEs and largest fanout of the topology runs
TopoMaxN == 16
TopoMaxK == 5

\* state of treedone_init on every PE before line 64, for any N and any
\* fanout after line 62
TopoInit ==
    /\ npes \in 1 .. TopoMaxN
    /\ G_LEAF = 1
    /\ K \in 2 .. TopoMaxK
    /\ pc = [p \in PEs |-> "td_build_topology"]
    /\ InitMemory

\* build_topology and slot_index use no state of another PE: the PEs are
\* taken in rank order
TopoTurn(p) == \A q \in PEs : q < p => pc[q] = "td_asserted"

\* line 64 (lines 43-54): PE p fills the topology fields of its td
td_build_topology(p) ==
    /\ pc[p] = "td_build_topology"
    /\ TopoTurn(p)
    /\ topology' = [topology EXCEPT ![p] = build_topology(p, npes, K)]
    /\ Goto(p, "td_slot")
    /\ UNCHANGED <<cfgVars, exit_status, regVars, mallocs, planVars, memVars, netVars,
                   dynVars, GLOBAL_DONE, child_vals, barriers, mpiVars>>

\* lines 112-116: a non-root computes its slot at its parent, idx[p] is slot;
\* a slot outside [0, fanout) fails the assert, which aborts the job
td_slot(p) ==
    /\ pc[p] = "td_slot"
    /\ LET slot == slot_index(p, topology[p].parent, K)
       IN  IF p # 0 /\ ~(slot >= 0 /\ slot < K)
           THEN /\ shmem_global_exit("SIGABRT")
                /\ UNCHANGED idx
           ELSE /\ idx' = [idx EXCEPT ![p] = IF p # 0 THEN slot ELSE @]
                /\ Goto(p, "td_asserted")
                /\ UNCHANGED exit_status
    /\ UNCHANGED <<cfgVars, lvl, grp, mallocs, planVars, memVars, netVars, dynVars,
                   tdVars, mpiVars>>

TopoNext ==
    \/ \E p \in PEs : td_build_topology(p)
    \/ \E p \in PEs : td_slot(p)

TopoSpec == TopoInit /\ [][TopoNext]_vars

\* the PEs whose parent field is p
TopoChildren(p) == {c \in PEs : topology[c] # NULL /\ topology[c].parent = p}

\* C32: for every N and fanout k, every non-root PE c has parent (c-1)/k, a
\* PE below it with c among its first_child .. last_child; the slot of c is
\* in [0, k), so the assert of line 116 never fires, and below the
\* num_children of the parent; two children of one parent have different
\* slots; and once every PE has its slot, the slots of the children of p are
\* exactly 0 .. num_children - 1, the slots p reads at line 104
C32_SlotIndex ==
    /\ exit_status = "running"
    /\ \A c \in PEs \ {0} : pc[c] = "td_asserted" =>
         LET p == topology[c].parent
         IN  /\ p = (c - 1) \div K
             /\ p \in PEs /\ p < c
             /\ topology[p].first_child <= c /\ c <= topology[p].last_child
             /\ idx[c] = slot_index(c, p, K)
             /\ idx[c] >= 0 /\ idx[c] < K
             /\ idx[c] < topology[p].num_children
             /\ \A d \in PEs \ {0, c} :
                  pc[d] = "td_asserted" /\ topology[d].parent = p => idx[d] # idx[c]
    /\ (\A c \in PEs : pc[c] = "td_asserted") =>
         \A p \in PEs :
            /\ {idx[c] : c \in TopoChildren(p)} = 0 .. topology[p].num_children - 1
            /\ Cardinality(TopoChildren(p)) = topology[p].num_children

\* 12 PEs with fanout 3: PE 3 has the children 10 and 11 only, in the slots
\* 0 and 1, and PE 11 is the last PE to have computed its slot
C32_Witness ==
    /\ npes = 12 /\ K = 3
    /\ \A c \in PEs : pc[c] = "td_asserted"
    /\ TopoChildren(3) = {10, 11}
    /\ topology[3].num_children = 2
    /\ idx[10] = 0 /\ idx[11] = 1
    /\ topology[11].num_children = 0
(* ======================================================================= *)
(* global_done_hstar.c lines 78-91 and 336-337: the environment            *)
(* ======================================================================= *)
\* longest environment string drawn from EnvChars
EnvMaxLen == 3
INT_MAX == 2147483647
INT_MIN == -2147483647 - 1

\* a space, the signs, three digits and a character that is none of these
EnvChars == {" ", "-", "+", "0", "1", "2", "x"}

\* strings of digits at and beyond the ends of int
EnvLong == {<<"2", "1", "4", "7", "4", "8", "3", "6", "4", "7">>,
            <<"2", "1", "4", "7", "4", "8", "3", "6", "4", "8">>,
            <<"-", "2", "1", "4", "7", "4", "8", "3", "6", "4", "8">>,
            <<"-", "2", "1", "4", "7", "4", "8", "3", "6", "4", "9">>,
            <<"9", "9", "9", "9", "9", "9", "9", "9", "9", "9", "9">>}

EnvStrings == UNION {[1 .. n -> EnvChars] : n \in 0 .. EnvMaxLen} \cup EnvLong

\* what getenv returns: NULL for a variable that is not set
EnvValues == {NULL} \cup {<<s>> : s \in EnvStrings}

isspace(c) == c = " "
isdigit(c) == c \in {"0", "1", "2", "3", "4", "5", "6", "7", "8", "9"}
DigitValue(c) ==
    CASE c = "0" -> 0 [] c = "1" -> 1 [] c = "2" -> 2 [] c = "3" -> 3 [] c = "4" -> 4
      [] c = "5" -> 5 [] c = "6" -> 6 [] c = "7" -> 7 [] c = "8" -> 8 [] c = "9" -> 9

RECURSIVE SkipSpace(_)
SkipSpace(s) == IF s # << >> /\ isspace(Head(s)) THEN SkipSpace(Tail(s)) ELSE s

\* the leading digits of s, accumulated as a negative number acc; over: the
\* number does not fit
RECURSIVE Digits(_, _)
Digits(s, r) ==
    IF s = << >> \/ ~isdigit(Head(s))
    THEN r
    ELSE LET d == DigitValue(Head(s))
         IN  IF r.over \/ r.acc < INT_MIN \div 10 - 0
                \/ (r.acc = -214748364 /\ d > 8)
             THEN Digits(Tail(s), [acc |-> r.acc, over |-> TRUE])
             ELSE Digits(Tail(s), [acc |-> 10 * r.acc - d, over |-> FALSE])

\* what no build returns for a number that does not fit in int is known:
\* the behaviour of atoi is undefined there
AnyInt == {INT_MIN, -1, 0, 1, 2, 8, INT_MAX}

\* atoi: white space is skipped, one sign is read, digits are read up to the
\* first character that is not a digit; no digits give 0. The set of the
\* values the call may return
atoi(s) ==
    LET t   == SkipSpace(s)
        neg == t # << >> /\ Head(t) = "-"
        u   == IF t # << >> /\ Head(t) \in {"-", "+"} THEN Tail(t) ELSE t
        r   == Digits(u, [acc |-> 0, over |-> FALSE])
    IN  IF r.over \/ (~neg /\ r.acc = INT_MIN)
        THEN AnyInt
        ELSE {IF neg THEN r.acc ELSE 0 - r.acc}

\* lines 78-83: e is what getenv returned, v what atoi(e) returned
env_group_size(e, v) ==
    IF e = NULL \/ e[1] = << >> THEN 8 ELSE IF v >= 1 THEN v ELSE 8

\* lines 86-91
env_branch_k(e, v) ==
    IF e = NULL \/ e[1] = << >> THEN 8 ELSE IF v >= 2 THEN v ELSE 8

\* state of main of global_done_hstar.c at line 336 on one PE: G_LEAF and K
\* hold their static initial values (lines 33 and 53)
EnvInit ==
    /\ npes = 1
    /\ G_LEAF = 8
    /\ K = 8
    /\ environ \in [{"GLOBAL_GROUP_SIZE", "GLOBAL_BRANCH_K"} -> EnvValues]
    /\ pc = [p \in PEs |-> "main_env_group_size"]
    /\ MainMemory
    /\ MpiIdle

\* line 336: G_LEAF = env_group_size(); lvl[p] keeps v (0 when atoi is not
\* called)
main_env_group_size(p) ==
    /\ pc[p] = "main_env_group_size"
    /\ LET e == environ["GLOBAL_GROUP_SIZE"]
       IN  \E v \in IF e = NULL \/ e[1] = << >> THEN {0} ELSE atoi(e[1]) :
             /\ G_LEAF' = env_group_size(e, v)
             /\ lvl' = [lvl EXCEPT ![p] = v]
    /\ Goto(p, "main_env_branch_k")
    /\ UNCHANGED <<npes, K, environ, exit_status, grp, idx, mallocs, planVars, memVars,
                   netVars, dynVars, tdVars, mpiVars>>

\* line 337: K = env_branch_k(); grp[p] keeps v
main_env_branch_k(p) ==
    /\ pc[p] = "main_env_branch_k"
    /\ LET e == environ["GLOBAL_BRANCH_K"]
       IN  \E v \in IF e = NULL \/ e[1] = << >> THEN {0} ELSE atoi(e[1]) :
             /\ K' = env_branch_k(e, v)
             /\ grp' = [grp EXCEPT ![p] = v]
    /\ Goto(p, "main_start_barrier")
    /\ UNCHANGED <<npes, G_LEAF, environ, exit_status, lvl, idx, mallocs, planVars, memVars,
                   netVars, dynVars, tdVars, mpiVars>>

EnvNext ==
    \/ \E p \in PEs : main_env_group_size(p)
    \/ \E p \in PEs : main_env_branch_k(p)

EnvSpec == EnvInit /\ [][EnvNext]_vars

(* ================= properties of the configuration ===================== *)
\* s is a decimal numeral: digits only, at least one
Numeral(s) == s # << >> /\ \A i \in 1 .. Len(s) : isdigit(s[i])

\* s writes an integer: a numeral, or a sign and a numeral
Numeric(s) == Numeral(s) \/ (s # << >> /\ s[1] \in {"-", "+"} /\ Numeral(Tail(s)))

\* the number a numeral of at most EnvMaxLen digits writes
RECURSIVE NumeralValue(_)
NumeralValue(s) ==
    IF s = << >> THEN 0
    ELSE 10 * NumeralValue(SubSeq(s, 1, Len(s) - 1)) + DigitValue(s[Len(s)])

\* the integer a numeric string of at most EnvMaxLen characters writes
NumericValue(s) ==
    IF s[1] = "-" THEN 0 - NumeralValue(Tail(s))
    ELSE IF s[1] = "+" THEN NumeralValue(Tail(s))
    ELSE NumeralValue(s)

\* the value a configuration function is to return for the value e of its
\* variable, lo being the least number it accepts: the number the string
\* writes when that is at least lo, and 8 for a variable that is not set,
\* an empty string, a string that is not a number and a number below lo
EnvCoerced(e, lo, result) ==
    /\ result >= lo
    /\ e = NULL \/ e[1] = << >> => result = 8
    /\ e # NULL /\ e[1] # << >> /\ ~Numeric(e[1]) => result = 8
    /\ e # NULL /\ Numeric(e[1]) /\ e[1][1] = "-" => result = 8
    /\ e # NULL /\ Numeric(e[1]) /\ Len(e[1]) <= EnvMaxLen =>
         result = IF NumericValue(e[1]) >= lo THEN NumericValue(e[1]) ELSE 8

\* the values main assigns are never below the least accepted ones
EnvInRange == G_LEAF >= 1 /\ K >= 2

\* C33: once read, G_LEAF is the number GLOBAL_GROUP_SIZE writes when that is
\* at least 1 and 8 otherwise (variable not set, empty, not a number, zero or
\* negative), K is the number GLOBAL_BRANCH_K writes when that is at least 2
\* and 8 otherwise; G_LEAF >= 1 and K >= 2 in every state
C33_Coercion ==
    /\ EnvInRange
    /\ \A p \in PEs :
         /\ pc[p] \in {"main_env_branch_k", "main_start_barrier"} =>
              EnvCoerced(environ["GLOBAL_GROUP_SIZE"], 1, G_LEAF)
         /\ pc[p] = "main_start_barrier" =>
              EnvCoerced(environ["GLOBAL_BRANCH_K"], 2, K)

\* GLOBAL_GROUP_SIZE is "2x", which is not a number, and GLOBAL_BRANCH_K is
\* "-2147483649": atoi returned 2 and INT_MAX, and main took both
C33_Witness ==
    /\ environ["GLOBAL_GROUP_SIZE"] = << <<"2", "x">> >>
    /\ environ["GLOBAL_BRANCH_K"] =
          << <<"-", "2", "1", "4", "7", "4", "8", "3", "6", "4", "9">> >>
    /\ pc[0] = "main_start_barrier"
    /\ G_LEAF = 2 /\ K = INT_MAX

(* ======================================================================= *)
(* Allocation failure in H-STAR (global_done_hstar.c lines 117-191, 344-346) *)
(* ======================================================================= *)

\* the allocation steps of main, compute_levels_and_groups and
\* allocate_star_flags
HstarMallocPCs == {
    "main_malloc_LOCAL_DONE", "main_malloc_ELAPSED_MS",
    "compute_levels_and_groups",
    "malloc_GROUP_PE_DONE", "malloc_GROUP_PE_DONE_g",
    "malloc_ROOT_GROUP_DONE", "malloc_GLOBAL_TERMINATION_READY",
    "malloc_LVL_CHILD_DONE", "malloc_LVL_BCAST_TOKEN",
    "malloc_LVL_CHILD_DONE_l", "malloc_LVL_CHILD_DONE_lg",
    "malloc_LVL_BCAST_TOKEN_l"}

\* the allocation phase: the allocation steps and the initial stores that
\* follow them (lines 144-146, 154-156, 174-176, 186-188, 347-348)
HstarAllocPCs ==
    HstarMallocPCs \cup
    {"main_init_LOCAL_DONE", "main_init_ELAPSED_MS", "zero_GROUP_PE_DONE",
     "zero_ROOT_GROUP_DONE", "zero_GLOBAL_TERMINATION_READY",
     "zero_LVL_CHILD_DONE", "zero_LVL_BCAST_TOKEN"}

\* PE p has issued a protocol put (delivered or still in flight) or has
\* written a protocol flag of its own
IssuedPut(p) ==
    \/ \E m \in inflight : m.src = p
    \/ \E w \in wrote : w[1] = p
    \/ LOCAL_DONE[p] = <<DONE>>

\* the pointers PE p has got from the allocations whose NULL check it has
\* passed: the check of line 346 covers the first two, line 121 the third,
\* line 141 the fourth
CheckedPointers(p) ==
    /\ mallocs[p] >= 2 => LOCAL_DONE[p] # NULL /\ ELAPSED_MS[p] # NULL
    /\ mallocs[p] >= 3 => NUM_GROUPS[p] # NULL
    /\ mallocs[p] >= 4 => GROUP_PE_DONE[p] # NULL
    /\ pc[p] \notin HstarAllocPCs =>
         /\ ROOT_GROUP_DONE[p] # NULL
         /\ GLOBAL_TERMINATION_READY[p] # NULL
         /\ LVL_CHILD_DONE[p] # NULL
         /\ LVL_BCAST_TOKEN[p] # NULL
         /\ \A g \in DOMAIN GROUP_PE_DONE[p] : GROUP_PE_DONE[p][g] # NULL
         /\ \A l \in DOMAIN LVL_CHILD_DONE[p] : LVL_CHILD_DONE[p][l] # NULL
         /\ \A l \in DOMAIN LVL_BCAST_TOKEN[p] : LVL_BCAST_TOKEN[p][l] # NULL

\* the step in which an allocation of PE p fails
MallocFails(p) ==
    /\ exit_status = "running"
    /\ exit_status' = "1"
    /\ mallocs'[p] # mallocs[p]

\* C34: allocation failure is fatal.  A running PE holds no NULL pointer
\* from an allocation whose check it has passed; the job ends with status 1
\* only in a step in which an allocation of some PE fails, that PE is still
\* in its allocation phase and has issued no protocol put and entered no
\* wait; and status 1 is never replaced by another status.
C34_AllocationFailureFatal ==
    /\ [](exit_status = "running" => \A p \in PEs : CheckedPointers(p))
    /\ [][(exit_status = "running" /\ exit_status' = "1") =>
            \E p \in PEs : MallocFails(p)]_vars
    /\ [][\A p \in PEs : MallocFails(p) =>
            /\ pc[p] \in HstarMallocPCs
            /\ ~IssuedPut(p)]_vars
    /\ [][exit_status = "1" => exit_status' = "1"]_vars
    /\ [](exit_status \in {"running", "1", "0"})

\* the last allocation of allocate_star_flags fails on one PE after another
\* PE has left the allocation phase and issued its leaf put
C34_Witness ==
    /\ exit_status = "1"
    /\ \E p, q \in PEs :
         /\ p # q
         /\ IssuedPut(q)
         /\ ~IssuedPut(p)
         /\ LVL_BCAST_TOKEN[p] # NULL
         /\ \E l \in DOMAIN LVL_BCAST_TOKEN[p] : LVL_BCAST_TOKEN[p][l] = NULL

(* ======================================================================= *)
(* incomplete_versions/mpi_treereduce_vs_allreduce.c: one call of          *)
(* kary_tree_reduce_bcast_sum_long_nb on every rank, followed by the check *)
(* of main against MPI_Allreduce (--checks).  Ranks are the PEs 0..npes-1, *)
(* K is --fanout as main read it, idx[p] is the loop variable i.           *)
(* ======================================================================= *)
MpiMaxN == 4
MpiMaxK == 3
MpiMaxCount == 2
\* width of long in the model
LongBits == 3

TAG_REDUCE == 1001
TAG_BCAST == 1002

LONG_MAX == 2 ^ (LongBits - 1) - 1
LONG_MIN == -LONG_MAX - 1

\* a value of type long: the low LongBits bits of v, as a signed number
long_wrap(v) ==
    LET m == v % (2 ^ LongBits)
    IN  IF m > LONG_MAX THEN m - 2 ^ LongBits ELSE m

\* a + b on long as the build computes it (two's complement addition)
long_add(a, b) == long_wrap(a + b)

\* the send buffers a rank may hold: every element -1, or LONG_MAX followed
\* by ones
MpiInputs(n) ==
    {[j \in 0 .. n - 1 |-> -1], [j \in 0 .. n - 1 |-> IF j = 0 THEN LONG_MAX ELSE 1]}

mpiFrame == <<cfgVars, count, my, lvl, grp, mallocs, planVars, memVars, netVars, dynVars,
              tdVars>>

\* state of main after line 168: my is filled by the caller, out is
\* allocated
MpiInit ==
    /\ npes \in 1 .. MpiMaxN
    /\ G_LEAF = 1
    /\ K \in 1 .. MpiMaxK
    /\ count \in 1 .. MpiMaxCount
    /\ my \in [PEs -> MpiInputs(count)]
    /\ out = [p \in PEs |-> Array(count, UNINIT)]
    /\ plan = [p \in PEs |-> NULL]
    /\ acc = [p \in PEs |-> NULL]
    /\ tmp_all = [p \in PEs |-> NULL]
    /\ red_recvs = [p \in PEs |-> NULL]
    /\ bcast_sends = [p \in PEs |-> NULL]
    /\ mpi_msgs = {}
    /\ pc = [p \in PEs |-> "mpi_plan_init"]
    /\ MainMemory
    /\ environ = NULL

\* MPI_Abort(comm, status) ends the job on every rank
MPI_Abort(status) ==
    /\ exit_status' = status
    /\ pc' = [q \in PEs |-> "exited"]

\* mutant: last_child is not clamped to the last rank
tree_plan_unclamped(me, np, fanout) ==
    LET k     == IF fanout < 2 THEN 2 ELSE fanout
        first == k * me + 1
        last  == first + k - 1
    IN  [fanout |-> k,
         parent |-> IF me = 0 THEN -1 ELSE (me - 1) \div k,
         first_child |-> IF first >= np THEN -1 ELSE first,
         last_child |-> IF first >= np THEN -1 ELSE last,
         num_children |-> IF first >= np THEN 0 ELSE last - first + 1]

\* lines 45-59: the fields of the plan
tree_plan(me, np, fanout) ==
    LET k     == IF fanout < 2 THEN 2 ELSE fanout
        first == k * me + 1
        last  == first + k - 1
        clamp == IF last >= np THEN np - 1 ELSE last
    IN  [fanout |-> k,
         parent |-> IF me = 0 THEN -1 ELSE (me - 1) \div k,
         first_child |-> IF first >= np THEN -1 ELSE first,
         last_child |-> IF first >= np THEN -1 ELSE clamp,
         num_children |-> IF first >= np THEN 0 ELSE clamp - first + 1]

\* mutant: the block of the last child is left out of the sum
RECURSIVE accumulate_short(_, _, _)
accumulate_short(a, blocks, n) ==
    IF n <= 1 THEN a
    ELSE LET prev == accumulate_short(a, blocks, n - 1)
         IN  [j \in DOMAIN a |-> long_add(prev[j], blocks[n - 2][j])]

\* lines 101-104: acc[j] += src[j] for the blocks 0 .. n-1 in this order
RECURSIVE accumulate(_, _, _)
accumulate(a, blocks, n) ==
    IF n = 0 THEN a
    ELSE LET prev == accumulate(a, blocks, n - 1)
         IN  [j \in DOMAIN a |-> long_add(prev[j], blocks[n - 1][j])]

\* MPI_Allreduce(.., MPI_LONG, MPI_SUM, ..) over the buffers of ranks 0..n-1
RECURSIVE MPI_Allreduce(_, _)
MPI_Allreduce(bufs, n) ==
    IF n = 1 THEN bufs[0]
    ELSE LET prev == MPI_Allreduce(bufs, n - 1)
         IN  [j \in DOMAIN prev |-> long_add(prev[j], bufs[n - 1][j])]

\* where a rank goes after the upward reduce (line 108) and after the
\* exchange with its parent (line 116)
mpi_after_parent(p) ==
    IF plan[p].num_children > 0 THEN "mpi_isend" ELSE "mpi_memcpy_out"

mpi_after_reduce(p) ==
    IF p # 0 THEN "mpi_send" ELSE mpi_after_parent(p)

\* tree_plan_init (lines 40-72); a failed malloc ends in MPI_Abort(comm, 2)
mpi_tree_plan_init(p) ==
    /\ pc[p] = "mpi_plan_init"
    /\ \E ok \in BOOLEAN :
         IF ok
         THEN LET pl == tree_plan(p, npes, K)
              IN  /\ plan' = [plan EXCEPT ![p] = pl]
                  /\ acc' = [acc EXCEPT ![p] = Array(count, UNINIT)]
                  /\ tmp_all' = [tmp_all EXCEPT ![p] =
                         Array(pl.num_children, Array(count, UNINIT))]
                  /\ red_recvs' = [red_recvs EXCEPT ![p] = Array(pl.num_children, "null")]
                  /\ bcast_sends' = [bcast_sends EXCEPT ![p] =
                         Array(pl.num_children, "null")]
                  /\ Goto(p, "mpi_memcpy")
                  /\ UNCHANGED exit_status
         ELSE /\ MPI_Abort("2")
              /\ UNCHANGED <<plan, acc, tmp_all, red_recvs, bcast_sends>>
    /\ UNCHANGED <<mpiFrame, idx, out, mpi_msgs>>

\* line 89
mpi_memcpy(p) ==
    /\ pc[p] = "mpi_memcpy"
    /\ acc' = [acc EXCEPT ![p] = my[p]]
    /\ idx' = [idx EXCEPT ![p] = 0]
    /\ Goto(p, IF plan[p].num_children > 0 THEN "mpi_irecv" ELSE mpi_after_reduce(p))
    /\ UNCHANGED <<mpiFrame, exit_status, plan, out, tmp_all, red_recvs, bcast_sends,
                   mpi_msgs>>

\* lines 93-97: one MPI_Irecv per child
mpi_irecv(p) ==
    /\ pc[p] = "mpi_irecv"
    /\ red_recvs' = [red_recvs EXCEPT ![p][idx[p]] = "active"]
    /\ IF idx[p] + 1 < plan[p].num_children
       THEN /\ idx' = [idx EXCEPT ![p] = @ + 1]
            /\ UNCHANGED pc
       ELSE /\ idx' = [idx EXCEPT ![p] = 0]
            /\ Goto(p, "mpi_waitall_red")
    /\ UNCHANGED <<mpiFrame, exit_status, plan, out, acc, tmp_all, bcast_sends, mpi_msgs>>

\* the library matches message m with the receive posted for its source and
\* tag (line 96) and stores it into the block of that child
mpi_match_reduce(m) ==
    /\ m.tag = TAG_REDUCE
    /\ plan[m.dst] # NULL
    /\ LET p == m.dst
           i == m.src - plan[p].first_child
       IN  /\ i \in DOMAIN red_recvs[p]
           /\ red_recvs[p][i] = "active"
           /\ tmp_all' = [tmp_all EXCEPT ![p][i] = m.data]
           /\ red_recvs' = [red_recvs EXCEPT ![p][i] = "complete"]
    /\ mpi_msgs' = mpi_msgs \ {m}
    /\ UNCHANGED <<mpiFrame, exit_status, pc, idx, plan, out, acc, bcast_sends>>

\* lines 98-104: MPI_Waitall returns and the blocks are added to acc
mpi_waitall_red(p) ==
    /\ pc[p] = "mpi_waitall_red"
    /\ \A i \in DOMAIN red_recvs[p] : red_recvs[p][i] = "complete"
    /\ acc' = [acc EXCEPT ![p] = accumulate(@, tmp_all[p], plan[p].num_children)]
    /\ red_recvs' = [red_recvs EXCEPT ![p] = Array(plan[p].num_children, "null")]
    /\ Goto(p, mpi_after_reduce(p))
    /\ UNCHANGED <<mpiFrame, exit_status, idx, plan, out, tmp_all, bcast_sends, mpi_msgs>>

\* line 109: MPI_Send; the library buffers the message or waits for the
\* receive (sync)
mpi_send(p) ==
    /\ pc[p] = "mpi_send"
    /\ \E sync \in BOOLEAN :
         mpi_msgs' = mpi_msgs \cup
             {[src |-> p, dst |-> plan[p].parent, tag |-> TAG_REDUCE, data |-> acc[p],
               sync |-> sync, req |-> 0]}
    /\ Goto(p, "mpi_send_blocked")
    /\ UNCHANGED <<mpiFrame, exit_status, idx, plan, out, acc, tmp_all, red_recvs,
                   bcast_sends>>

\* MPI_Send returns: the message is buffered or has been received
mpi_send_returns(p) ==
    /\ pc[p] = "mpi_send_blocked"
    /\ \A m \in mpi_msgs : ~(m.src = p /\ m.tag = TAG_REDUCE /\ m.sync)
    /\ Goto(p, "mpi_recv")
    /\ UNCHANGED <<mpiFrame, exit_status, idx, plan, out, acc, tmp_all, red_recvs,
                   bcast_sends, mpi_msgs>>

\* line 111: MPI_Recv of the broadcast from the parent into acc
mpi_recv(p) ==
    /\ pc[p] = "mpi_recv"
    /\ \E m \in mpi_msgs :
         /\ m.src = plan[p].parent
         /\ m.dst = p
         /\ m.tag = TAG_BCAST
         /\ acc' = [acc EXCEPT ![p] = m.data]
         /\ bcast_sends' = [bcast_sends EXCEPT ![m.src][m.req] = "complete"]
         /\ mpi_msgs' = mpi_msgs \ {m}
    /\ Goto(p, mpi_after_parent(p))
    /\ UNCHANGED <<mpiFrame, exit_status, idx, plan, out, tmp_all, red_recvs>>

\* lines 117-120: one MPI_Isend per child; a buffered send is complete at
\* once, a synchronous one when the child has received it
mpi_isend(p) ==
    /\ pc[p] = "mpi_isend"
    /\ \E sync \in BOOLEAN :
         /\ mpi_msgs' = mpi_msgs \cup
                {[src |-> p, dst |-> plan[p].first_child + idx[p], tag |-> TAG_BCAST,
                  data |-> acc[p], sync |-> sync, req |-> idx[p]]}
         /\ bcast_sends' = [bcast_sends EXCEPT ![p][idx[p]] =
                IF sync THEN "active" ELSE "complete"]
    /\ IF idx[p] + 1 < plan[p].num_children
       THEN /\ idx' = [idx EXCEPT ![p] = @ + 1]
            /\ UNCHANGED pc
       ELSE /\ idx' = [idx EXCEPT ![p] = 0]
            /\ Goto(p, "mpi_waitall_bcast")
    /\ UNCHANGED <<mpiFrame, exit_status, plan, out, acc, tmp_all, red_recvs>>

\* line 121
mpi_waitall_bcast(p) ==
    /\ pc[p] = "mpi_waitall_bcast"
    /\ \A i \in DOMAIN bcast_sends[p] : bcast_sends[p][i] = "complete"
    /\ bcast_sends' = [bcast_sends EXCEPT ![p] = Array(plan[p].num_children, "null")]
    /\ Goto(p, "mpi_memcpy_out")
    /\ UNCHANGED <<mpiFrame, exit_status, idx, plan, out, acc, tmp_all, red_recvs,
                   mpi_msgs>>

\* line 124: the function returns with the result in recvbuf
mpi_memcpy_out(p) ==
    /\ pc[p] = "mpi_memcpy_out"
    /\ out' = [out EXCEPT ![p] = acc[p]]
    /\ Goto(p, "mpi_allreduce")
    /\ UNCHANGED <<mpiFrame, exit_status, idx, plan, acc, tmp_all, red_recvs, bcast_sends,
                   mpi_msgs>>

\* line 182: the rank enters MPI_Allreduce
mpi_allreduce(p) ==
    /\ pc[p] = "mpi_allreduce"
    /\ Goto(p, "mpi_allreduce_wait")
    /\ UNCHANGED <<mpiFrame, exit_status, idx, plan, out, acc, tmp_all, red_recvs,
                   bcast_sends, mpi_msgs>>

\* lines 182-190: MPI_Allreduce returns when every rank has contributed, and
\* out is compared with ref; a difference ends in MPI_Abort(comm, 4)
mpi_check(p) ==
    /\ pc[p] = "mpi_allreduce_wait"
    /\ \A q \in PEs : pc[q] \in {"mpi_allreduce_wait", "mpi_return"}
    /\ LET ref == MPI_Allreduce(my, npes)
       IN  IF \E j \in 0 .. count - 1 : out[p][j] # ref[j]
           THEN MPI_Abort("4")
           ELSE Goto(p, "mpi_return") /\ UNCHANGED exit_status
    /\ UNCHANGED <<mpiFrame, idx, plan, out, acc, tmp_all, red_recvs, bcast_sends,
                   mpi_msgs>>

MpiNext ==
    \/ \E p \in PEs : mpi_tree_plan_init(p)
    \/ \E p \in PEs : mpi_memcpy(p)
    \/ \E p \in PEs : mpi_irecv(p)
    \/ \E m \in mpi_msgs : mpi_match_reduce(m)
    \/ \E p \in PEs : mpi_waitall_red(p)
    \/ \E p \in PEs : mpi_send(p)
    \/ \E p \in PEs : mpi_send_returns(p)
    \/ \E p \in PEs : mpi_recv(p)
    \/ \E p \in PEs : mpi_isend(p)
    \/ \E p \in PEs : mpi_waitall_bcast(p)
    \/ \E p \in PEs : mpi_memcpy_out(p)
    \/ \E p \in PEs : mpi_allreduce(p)
    \/ \E p \in PEs : mpi_check(p)

MpiSpec == MpiInit /\ [][MpiNext]_vars

\* the sum over the ranks 0 .. n-1 of element j of the send buffers, as an
\* integer
RECURSIVE MpiIntegerSum(_, _)
MpiIntegerSum(j, n) == IF n = 0 THEN 0 ELSE MpiIntegerSum(j, n - 1) + my[n - 1][j]

\* rank p has returned from kary_tree_reduce_bcast_sum_long_nb
MpiReturned(p) == pc[p] \in {"mpi_allreduce", "mpi_allreduce_wait", "mpi_return"}

\* some step of the benchmark can be taken
MpiCanStep ==
    \/ \E p \in PEs : pc[p] \in {"mpi_plan_init", "mpi_memcpy", "mpi_irecv", "mpi_send",
                                  "mpi_isend", "mpi_memcpy_out", "mpi_allreduce"}
    \/ \E m \in mpi_msgs : ENABLED mpi_match_reduce(m)
    \/ \E p \in PEs : ENABLED mpi_waitall_red(p)
    \/ \E p \in PEs : ENABLED mpi_send_returns(p)
    \/ \E p \in PEs : ENABLED mpi_recv(p)
    \/ \E p \in PEs : ENABLED mpi_waitall_bcast(p)
    \/ \E p \in PEs : ENABLED mpi_check(p)

\* C35: the manual k-ary tree reduce equals allreduce.  A fanout below 2 is
\* planned as 2; on every rank that has returned, the receive buffer holds
\* for every element the sum over all ranks of the send buffers (as a long,
\* the value MPI_Allreduce with MPI_SUM gives), so the check of main never
\* aborts; and as long as some rank has not finished, some send, receive or
\* wait can complete.
C35_TreeReduceEqualsAllreduce ==
    /\ \A p \in PEs : plan[p] # NULL => plan[p].fanout = (IF K < 2 THEN 2 ELSE K)
    /\ \A p \in PEs : MpiReturned(p) =>
         /\ out[p] = [j \in 0 .. count - 1 |-> long_wrap(MpiIntegerSum(j, npes))]
         /\ out[p] = MPI_Allreduce(my, npes)
    /\ exit_status \in {"running", "2"}
    /\ (exit_status = "running" /\ \E p \in PEs : pc[p] # "mpi_return") => MpiCanStep

\* four ranks with --fanout 1 and two elements: rank 3 reduces through rank
\* 1, the first element overflows long, and every rank has passed the check
C35_Witness ==
    /\ npes = 4
    /\ K = 1
    /\ count = 2
    /\ \A p \in PEs : pc[p] = "mpi_return"
    /\ \A p \in {0, 1} : my[p][0] = LONG_MAX /\ my[p][1] = 1
    /\ \A p \in {2, 3} : my[p][0] = -1 /\ my[p][1] = -1
    /\ MpiIntegerSum(0, npes) > LONG_MAX
    /\ out[3][0] = LONG_MIN
    /\ out[3][1] = 0
    /\ plan[3].parent = 1

(* ======================================================================= *)
(* Level work in H-STAR (global_done_hstar.c lines 211-250, 278-318)       *)
(* ======================================================================= *)

\* the positions inside the bodies of the fan-in and of the fan-out loop
LevelWorkPCs == {"rht_fanin_wait", "rht_fanin_notify", "rht_fanin_quiet",
                 "rht_fanout_wait", "rht_forward", "rht_set_gates", "rht_fanout_quiet"}

\* PE p owns no group at any level: it is not the first PE of its leaf group
OwnsNothing(p) == p # owner_of(p, 0)

\* the puts PE p has issued: those in flight and those delivered
PutsOf(p) ==
    {<<m.src, m.dst, m.obj, m.l, m.g, m.i>> : m \in {n \in inflight : n.src = p}}
        \cup {w \in wrote : w[1] = p /\ w[2] # p}

\* the put m, issued by p in this step, belongs to work p may do: its leaf
\* mailbox slot, or a put of a level whose group p owns
PutAllowed(p, m) ==
    \/ /\ pc[p] = "rht_leaf_put"
       /\ m.l = 0 /\ m.g = group_of(p, 0) /\ m.i = p % G_LEAF
       /\ m.dst = owner_of(p, 0)
    \/ /\ pc[p] = "rht_fanin_notify"
       /\ p = owner_of(p, lvl[p])
       /\ m.l = lvl[p] + 1
    \/ /\ pc[p] = "rht_forward"
       /\ p = owner_of(p, lvl[p])
       /\ m.l = lvl[p] - 1
    \/ /\ pc[p] = "rht_set_gates"
       /\ p = owner_of(p, 0)
       /\ lvl[p] = 0

\* the positions of a PE that owns nothing after its leaf put
GateOnlyPCs == {"rht_gate_wait", "rht_barrier", "rht_barrier_wait", "rht_all_clear",
                "shmem_finalize", "done", "exited"}

\* C36: non-owners do no level work in H-STAR.  A PE is inside the body of
\* the fan-in or fan-out loop for level l only if it owns its group at level
\* l, and every put it issues is its leaf mailbox put or a put of a level
\* whose group it owns.  A PE that owns no group issues one put in the whole
\* run, its leaf mailbox slot, goes from there to the wait on its own gate
\* and waits for no flag of any level.
C36_NonOwnersDoNoLevelWork ==
    /\ [](\A p \in PEs : pc[p] \in LevelWorkPCs =>
             /\ lvl[p] \in 0 .. LEVELS[p] - 1
             /\ p = owner_of(p, lvl[p]))
    /\ [][\A p \in PEs : \A m \in inflight' \ inflight :
             m.src = p => PutAllowed(p, m)]_vars
    /\ [](\A p \in PEs : OwnsNothing(p) =>
             /\ Cardinality(PutsOf(p)) <= 1
             /\ pc[p] \notin LevelWorkPCs
             /\ pc[p] \in GateOnlyPCs \ {"exited"} =>
                  PutsOf(p) = {<<p, owner_of(p, 0), LVL_CHILD_DONE[p][0][group_of(p, 0)], 0,
                                 group_of(p, 0), p % G_LEAF>>})
    /\ [][\A p \in PEs : OwnsNothing(p) =>
             /\ (pc[p] = "rht_leaf_quiet" /\ pc'[p] # pc[p]) =>
                    pc'[p] \in {"rht_gate_wait", "exited"}
             /\ (pc[p] \in GateOnlyPCs) => pc'[p] \in GateOnlyPCs
             /\ (pc[p] # "rht_leaf_put") => \A m \in inflight' \ inflight : m.src # p]_vars

\* three PEs in leaf groups of two: PE 1 owns nothing and waits on its gate
\* with its one put delivered, PE 2 owns its leaf group only and waits for
\* its token, PE 0 owns the top group and forwards the token
C36_Witness ==
    /\ npes = 3
    /\ G_LEAF = 2
    /\ OwnsNothing(1)
    /\ pc[1] = "rht_gate_wait"
    /\ Cardinality(PutsOf(1)) = 1
    /\ 2 = owner_of(2, 0) /\ 2 # owner_of(2, 1)
    /\ pc[2] = "rht_fanout_wait" /\ lvl[2] = 0
    /\ pc[0] = "rht_forward" /\ lvl[0] = 1

(* ======================================================================= *)
(* Aggregation of ELAPSED_MS in H-STAR and STAR                            *)
(* (global_done_hstar.c lines 203-270, global_done_star.c lines 118-163)   *)
(* ======================================================================= *)

\* the root is in the loop that reads ELAPSED_MS of PE idx[ROOT_PE]
RootAggregates == pc[ROOT_PE] \in {"rht_aggregate", "rst_aggregate"}

\* PE p has stored its elapsed time at local completion
ElapsedWritten(p) == LOCAL_DONE[p] = <<DONE>> /\ ELAPSED_MS[p] # NULL /\ ELAPSED_MS[p][1] > 0

\* the step stores into ELAPSED_MS of PE p
ElapsedStore(p) == ELAPSED_MS'[p] # ELAPSED_MS[p]

\* C37: elapsed-time aggregation reads final values.  While the root runs
\* its aggregation loop every PE has stored its elapsed time; that store is
\* made by the PE itself at local completion, after it the value is never
\* stored again, and the aggregate line the root prints is made of the
\* stored times only (no initial 0.0).
C37_ElapsedFinal ==
    /\ [](RootAggregates => \A p \in PEs : ElapsedWritten(p))
    /\ [][\A p \in PEs : ElapsedStore(p) =>
             \/ pc[p] \in {"rht_local_done", "rst_local_done"} /\ ~ElapsedWritten(p)
                    /\ ~RootAggregates
             \/ pc[p] \in {"main_malloc_ELAPSED_MS", "main_init_ELAPSED_MS",
                           "star_main_malloc_ELAPSED_MS", "star_main_init_ELAPSED_MS"}]_vars
    /\ [][\A p \in PEs : ElapsedWritten(p) => ELAPSED_MS'[p] = ELAPSED_MS[p]]_vars
    /\ [](\A k \in DOMAIN stdout : stdout[k].line = "ELAPSED_MS" =>
             /\ stdout[k].min > 0
             /\ stdout[k].sum = npes
             /\ stdout[k].max = stdout[k].min)

\* the root of a three-PE run has read its own time and that of PE 1 and is
\* about to read ELAPSED_MS of PE 2 with shmem_double_g
C37_Witness ==
    /\ npes = 3
    /\ RootAggregates
    /\ idx[ROOT_PE] = 2
    /\ agg.sum = 2
    /\ <<ROOT_PE, 1, FALSE>> \in rma
    /\ ElapsedWritten(2)

(* ======================================================================= *)
(* Liveness of global_done_tree_dynamic.c (lines 139-187, 230-316)         *)
(* ======================================================================= *)
DynPE(p) ==
    /\ p \in PEs
    /\ \/ dyn_main_malloc(p) \/ dyn_main_init(p) \/ dyn_malloc_tables(p)
       \/ dyn_malloc_level(p) \/ dyn_init_level(p) \/ dyn_malloc_LEAF_COUNT(p)
       \/ dyn_zero_LEAF_COUNT(p) \/ dyn_local_done(p) \/ dyn_top_flag(p)
       \/ dyn_leaf_get(p) \/ dyn_leaf_fetch_inc(p) \/ dyn_leaf_cas(p)
       \/ dyn_leader_get(p) \/ dyn_left_get(p) \/ dyn_right_get(p) \/ dyn_group_cas(p)
       \/ dyn_parent_cas(p) \/ dyn_agg_cas(p) \/ dyn_release(p) \/ dyn_wait_acks(p)
       \/ dyn_wait_go(p) \/ dyn_ack(p) \/ dyn_exit(p)

DynDelivery == \E m \in inflight : dyn_Deliver(m)

\* each PE is its own process and the substrate completes every put
DynLiveSpec ==
    /\ DynSpec
    /\ \A p \in 0 .. MaxN - 1 : WF_vars(DynPE(p))
    /\ WF_vars(DynDelivery)

\* the run is outside the claim or outside the explored part of the program:
\* an allocation has failed and the job has ended with status 1, or a leaf
\* counter has reached MaxCount, where the model stops counting
DynExcused ==
    \/ exit_status = "1"
    \/ \E h \in PEs : \E g \in DOMAIN LEAF_COUNT[h] : LEAF_COUNT[h][g] = MaxCount

\* C38 (dynamic-variant liveness under staggered completion): in every fair
\* run in which no allocation fails (and no counter reaches the cap), whatever the order in which the PEs set
\* LOCAL_DONE = -1, the top-level flag eventually becomes 1, ROOT_GO
\* eventually becomes 1, every non-root PE eventually acknowledges (EXIT_ACKS
\* reaches N - 1) and the job eventually ends with status 0.
C38_DynLiveness ==
    /\ <>(DynExcused \/ DynFlag(DynLevels - 1, 0) = 1)
    /\ <>(DynExcused \/ ROOT_GO[ROOT_PE] = <<1>>)
    /\ <>(DynExcused \/ EXIT_ACKS[ROOT_PE] = <<npes - 1>>)
    /\ <>(DynExcused \/ exit_status = "0")

\* three PEs: the top-level flag and ROOT_GO are 1, one non-root PE has
\* acknowledged and its shmem_global_exit(0) has ended the job before the
\* other one acknowledged
C38_Witness ==
    /\ npes = 3
    /\ DynFlag(DynLevels - 1, 0) = 1
    /\ ROOT_GO[ROOT_PE] = <<1>>
    /\ \A p \in PEs : LOCAL_DONE[p] = <<DONE>>
    /\ EXIT_ACKS[ROOT_PE] = <<1>>
    /\ exit_status = "0"

(* ======================================================================= *)
(* treedone_bench.c: treedone_init and the rounds of the tree benchmark    *)
(* (lines 68-170 and 233-258).  lvl[p] counts the rounds PE p has          *)
(* finished (the loop variable k of the warmup loop, then BenchWarmup + k  *)
(* of the timed loop), idx[p] is i and loc[p] is seen; the field l of a    *)
(* put and of a history record is the round in which it was issued.       *)
(* ======================================================================= *)
BenchMaxN == 4
\* --warmup and --iters of the explored runs
BenchWarmup == 2
BenchIters == 1

benchFrame == <<cfgVars, mpiVars, planVars, grp, ELAPSED_MS, starVars, lvlVars, agg, rma,
                topology, MAX_LEVELS, GROUP_DONE, GROUP_LEADER, LEAF_COUNT, AGG_PRINTED,
                ROOT_GO, EXIT_ACKS, fetched, elected>>

\* state of main when it calls treedone_init (line 234); fanout is at least
\* 2 (line 231)
BenchInit ==
    /\ npes \in 1 .. BenchMaxN
    /\ G_LEAF = 1
    /\ K \in 2 .. MaxK
    /\ pc = [p \in PEs |-> "bench_init_malloc"]
    /\ InitMemory

\* lines 70-90: the seven allocations and the NULL check
bench_init_malloc(p) ==
    /\ pc[p] = "bench_init_malloc"
    /\ shmem_malloc_returns(p)
    /\ mallocs' = [mallocs EXCEPT ![p] = @ + 7]
    /\ \E ok \in BOOLEAN :
         IF ok
         THEN /\ LOCAL_DONE' = [LOCAL_DONE EXCEPT ![p] = <<UNINIT>>]
              /\ GLOBAL_DONE' = [GLOBAL_DONE EXCEPT ![p] = <<UNINIT>>]
              /\ child_vals' = [child_vals EXCEPT ![p] = Array(K, UNINIT)]
              /\ Goto(p, "bench_init_store")
              /\ UNCHANGED exit_status
         ELSE /\ shmem_global_exit("1")
              /\ UNCHANGED <<LOCAL_DONE, GLOBAL_DONE, child_vals>>
    /\ UNCHANGED <<benchFrame, lvl, idx, loc, barriers, inflight, wrote, stdout>>

\* lines 92-99: the stores of the initial values, then p enters the barrier
bench_init_store(p) ==
    /\ pc[p] = "bench_init_store"
    /\ LOCAL_DONE' = [LOCAL_DONE EXCEPT ![p] = <<NOT_DONE>>]
    /\ GLOBAL_DONE' = [GLOBAL_DONE EXCEPT ![p] = <<0>>]
    /\ child_vals' = [child_vals EXCEPT ![p] = Array(K, 0)]
    /\ td_barrier_enter(p)
    /\ Goto(p, "bench_init_barrier")
    /\ UNCHANGED <<benchFrame, exit_status, lvl, idx, loc, mallocs, inflight, wrote, stdout>>

\* the barrier of line 99 returns; lines 236-240: PE 0 prints the header and
\* p enters the barrier of line 240
bench_main_header(p) ==
    /\ pc[p] = "bench_init_barrier"
    /\ td_barrier_returns(p)
    /\ stdout' = IF p = 0
                 THEN Append(stdout, [line |-> "PEs", npes |-> npes, fanout |-> K])
                 ELSE stdout
    /\ td_barrier_enter(p)
    /\ Goto(p, "bench_main_barrier")
    /\ UNCHANGED <<benchFrame, exit_status, lvl, idx, loc, mallocs, LOCAL_DONE,
                   GLOBAL_DONE, child_vals, inflight, wrote>>

\* where PE p goes at the head of the loops of lines 243 and 253, lvl rounds
\* done
bench_loop_head(done) ==
    IF done < BenchWarmup THEN "bench_reset"
    ELSE IF done = BenchWarmup THEN "bench_time"
    ELSE IF done < BenchWarmup + BenchIters THEN "bench_reset"
    ELSE "bench_tree_timed"

\* the barrier of line 240 returns and p reaches the head of the warmup loop
bench_main_barrier(p) ==
    /\ pc[p] = "bench_main_barrier"
    /\ td_barrier_returns(p)
    /\ IF 0 < BenchWarmup
       THEN Goto(p, "bench_reset") /\ UNCHANGED barriers
       ELSE Goto(p, "bench_time_barrier") /\ td_barrier_enter(p)
    /\ UNCHANGED <<benchFrame, exit_status, lvl, idx, loc, mallocs, LOCAL_DONE,
                   GLOBAL_DONE, child_vals, inflight, wrote, stdout>>

\* lines 251-253: the barrier before the timed loop returns
bench_time_barrier(p) ==
    /\ pc[p] = "bench_time_barrier"
    /\ td_barrier_returns(p)
    /\ Goto(p, IF 0 < BenchIters THEN "bench_reset" ELSE "bench_tree_timed")
    /\ UNCHANGED <<benchFrame, exit_status, lvl, idx, loc, mallocs, LOCAL_DONE,
                   GLOBAL_DONE, child_vals, barriers, inflight, wrote, stdout>>

\* reset_for_tree_round (lines 118-122) and p enters the barrier of line 245
\* or 255, which completes the puts p has issued
bench_reset(p) ==
    /\ pc[p] = "bench_reset"
    /\ LOCAL_DONE' = [LOCAL_DONE EXCEPT ![p] = <<NOT_DONE>>]
    /\ GLOBAL_DONE' = [GLOBAL_DONE EXCEPT ![p] = <<0>>]
    /\ child_vals' = [child_vals EXCEPT ![p] = Array(K, 0)]
    /\ wrote' = wrote \cup {<<p, p, "reset", lvl[p], 0, 0>>}
    /\ shmem_quiet_returns(p)
    /\ td_barrier_enter(p)
    /\ Goto(p, "bench_reset_barrier")
    /\ UNCHANGED <<benchFrame, exit_status, lvl, idx, loc, mallocs, inflight, stdout>>

\* the barrier returns; treedone_collective_tree, lines 136-141: the call is
\* recorded in wrote
bench_local_done(p) ==
    /\ pc[p] = "bench_reset_barrier"
    /\ td_barrier_returns(p)
    /\ LOCAL_DONE' = [LOCAL_DONE EXCEPT ![p] = <<DONE>>]
    /\ wrote' = wrote \cup {<<p, p, "LOCAL_DONE", lvl[p], 0, 0>>}
    /\ idx' = [idx EXCEPT ![p] = 0]
    /\ loc' = [loc EXCEPT ![p] = 0]
    /\ Goto(p, IF td(p).num_children > 0 THEN "bench_scan" ELSE "bench_report")
    /\ UNCHANGED <<benchFrame, exit_status, lvl, mallocs, GLOBAL_DONE, child_vals, barriers,
                   inflight, stdout>>

\* lines 142-147: one read of child_vals[i]
bench_scan(p) ==
    /\ pc[p] = "bench_scan"
    /\ LET need == td(p).num_children
           seen == loc[p] + (IF child_vals[p][idx[p]] = 1 THEN 1 ELSE 0)
       IN  IF idx[p] + 1 < need
           THEN /\ idx' = [idx EXCEPT ![p] = @ + 1]
                /\ loc' = [loc EXCEPT ![p] = seen]
                /\ UNCHANGED pc
           ELSE /\ idx' = [idx EXCEPT ![p] = 0]
                /\ loc' = [loc EXCEPT ![p] = 0]
                /\ Goto(p, IF seen = need THEN "bench_report" ELSE "bench_scan")
    /\ UNCHANGED <<benchFrame, exit_status, lvl, mallocs, LOCAL_DONE, GLOBAL_DONE,
                   child_vals, barriers, inflight, wrote, stdout>>

\* lines 151-157: a non-root puts 1 into its slot at its parent
bench_signal_parent(p) ==
    /\ pc[p] = "bench_report"
    /\ p # 0
    /\ LET parent == td(p).parent
           slot == slot_index(p, parent, K)
       IN  IF slot >= 0 /\ slot < K
           THEN /\ inflight' = inflight \cup
                        {Put(p, parent, "child_vals", lvl[p], 0, slot)}
                /\ Goto(p, "bench_wait_global")
                /\ UNCHANGED exit_status
           ELSE /\ shmem_global_exit("SIGABRT")
                /\ UNCHANGED inflight
    /\ UNCHANGED <<benchFrame, lvl, idx, loc, mallocs, LOCAL_DONE, GLOBAL_DONE, child_vals,
                   barriers, wrote, stdout>>

\* lines 159-161: the root stores -1 into its own GLOBAL_DONE
bench_root_self(p) ==
    /\ pc[p] = "bench_report"
    /\ p = 0
    /\ GLOBAL_DONE' = [GLOBAL_DONE EXCEPT ![p] = <<DONE>>]
    /\ wrote' = wrote \cup {<<p, p, "GLOBAL_DONE", lvl[p], 0, 0>>}
    /\ shmem_quiet_returns(p)
    /\ idx' = [idx EXCEPT ![p] = 0]
    /\ Goto(p, IF 0 < npes THEN "bench_bcast" ELSE "bench_bcast_quiet")
    /\ UNCHANGED <<benchFrame, exit_status, lvl, loc, mallocs, LOCAL_DONE, child_vals,
                   barriers, inflight, stdout>>

\* lines 162-165: one pass of the broadcast loop, idx[p] is pe
bench_bcast(p) ==
    /\ pc[p] = "bench_bcast"
    /\ inflight' = IF idx[p] = p THEN inflight
                   ELSE inflight \cup {Put(p, idx[p], "GLOBAL_DONE", lvl[p], 0, 0)}
    /\ idx' = [idx EXCEPT ![p] = @ + 1]
    /\ Goto(p, IF idx[p] + 1 < npes THEN "bench_bcast" ELSE "bench_bcast_quiet")
    /\ UNCHANGED <<benchFrame, exit_status, lvl, loc, mallocs, LOCAL_DONE, GLOBAL_DONE,
                   child_vals, barriers, wrote, stdout>>

\* line 166
bench_bcast_quiet(p) ==
    /\ pc[p] = "bench_bcast_quiet"
    /\ shmem_quiet_returns(p)
    /\ Goto(p, "bench_wait_global")
    /\ UNCHANGED <<benchFrame, exit_status, lvl, idx, loc, mallocs, LOCAL_DONE, GLOBAL_DONE,
                   child_vals, barriers, inflight, wrote, stdout>>

\* line 169: the loop ends once the local GLOBAL_DONE reads -1; the call
\* returns and p enters the barrier of line 247 or 257, which completes the
\* puts p has issued
bench_wait_global(p) ==
    /\ pc[p] = "bench_wait_global"
    /\ GLOBAL_DONE[p] = <<DONE>>
    /\ wrote' = wrote \cup {<<p, p, "returned", lvl[p], 0, 0>>}
    /\ shmem_quiet_returns(p)
    /\ td_barrier_enter(p)
    /\ Goto(p, "bench_round_barrier")
    /\ UNCHANGED <<benchFrame, exit_status, lvl, idx, loc, mallocs, LOCAL_DONE, GLOBAL_DONE,
                   child_vals, inflight, stdout>>

\* the barrier of line 247 or 257 returns, ++k and the loop head; after the
\* warmup loop p enters the barrier of line 251
bench_round_barrier(p) ==
    /\ pc[p] = "bench_round_barrier"
    /\ td_barrier_returns(p)
    /\ lvl' = [lvl EXCEPT ![p] = @ + 1]
    /\ LET next == bench_loop_head(lvl[p] + 1)
       IN  IF next = "bench_time"
           THEN Goto(p, "bench_time_barrier") /\ td_barrier_enter(p)
           ELSE Goto(p, next) /\ UNCHANGED barriers
    /\ UNCHANGED <<benchFrame, exit_status, idx, loc, mallocs, LOCAL_DONE, GLOBAL_DONE,
                   child_vals, inflight, wrote, stdout>>

\* the substrate completes a put at its target
bench_Deliver(m) ==
    /\ td_Deliver(m)
    /\ UNCHANGED lvl

BenchNext ==
    \/ \E p \in PEs : bench_init_malloc(p)
    \/ \E p \in PEs : bench_init_store(p)
    \/ \E p \in PEs : bench_main_header(p)
    \/ \E p \in PEs : bench_main_barrier(p)
    \/ \E p \in PEs : bench_time_barrier(p)
    \/ \E p \in PEs : bench_reset(p)
    \/ \E p \in PEs : bench_local_done(p)
    \/ \E p \in PEs : bench_scan(p)
    \/ \E p \in PEs : bench_signal_parent(p)
    \/ \E p \in PEs : bench_root_self(p)
    \/ \E p \in PEs : bench_bcast(p)
    \/ \E p \in PEs : bench_bcast_quiet(p)
    \/ \E p \in PEs : bench_wait_global(p)
    \/ \E p \in PEs : bench_round_barrier(p)
    \/ \E m \in inflight : bench_Deliver(m)

BenchSpec == BenchInit /\ [][BenchNext]_vars

BenchPE(p) ==
    /\ p \in PEs
    /\ \/ bench_init_malloc(p) \/ bench_init_store(p) \/ bench_main_header(p)
       \/ bench_main_barrier(p) \/ bench_time_barrier(p) \/ bench_reset(p)
       \/ bench_local_done(p) \/ bench_scan(p) \/ bench_signal_parent(p)
       \/ bench_root_self(p) \/ bench_bcast(p) \/ bench_bcast_quiet(p)
       \/ bench_wait_global(p) \/ bench_round_barrier(p)

BenchDelivery == \E m \in inflight : bench_Deliver(m)

\* each PE is its own process and the substrate completes every put
BenchLiveSpec ==
    /\ BenchSpec
    /\ \A p \in 0 .. BenchMaxN - 1 : WF_vars(BenchPE(p))
    /\ WF_vars(BenchDelivery)

(* ================= properties of the tree benchmark ==================== *)
BenchRounds == 0 .. BenchWarmup + BenchIters - 1

\* PE p has executed reset_for_tree_round of round r, has entered
\* treedone_collective_tree of round r, has returned from it
BenchReset(p, r) == <<p, p, "reset", r, 0, 0>> \in wrote
BenchCalled(p, r) == <<p, p, "LOCAL_DONE", r, 0, 0>> \in wrote
BenchReturned(p, r) == <<p, p, "returned", r, 0, 0>> \in wrote

\* C39 (repeated rounds in the tree benchmark): a put issued in round r (a
\* child's 1 into child_vals, the root's -1 into GLOBAL_DONE) lands after the
\* target's reset for round r and before its reset for round r + 1; a PE
\* that has reset for a round reads GLOBAL_DONE = -1 only when every PE has
\* entered the terminate call of that round; no round ends the job; and in
\* every fair run without a failed allocation every PE returns from the call
\* of every round and leaves the timed loop.
C39_RepeatedRounds ==
    /\ [][\A m \in inflight \ inflight' :
             /\ BenchReset(m.dst, m.l)
             /\ ~BenchReset(m.dst, m.l + 1)'
             /\ lvl[m.dst] = m.l]_vars
    /\ [](\A p \in PEs : (BenchReset(p, lvl[p]) /\ GLOBAL_DONE[p] = <<DONE>>) =>
             \A q \in PEs : BenchCalled(q, lvl[p]))
    /\ [](exit_status \in {"running", "1"})
    /\ \A p \in 0 .. BenchMaxN - 1 : \A r \in BenchRounds :
         <>(exit_status = "1" \/ p \notin PEs \/ BenchReturned(p, r))
    /\ <>(exit_status = "1" \/ \A p \in PEs : pc[p] = "bench_tree_timed")

\* four PEs with fanout 2 have left the timed loop: in each of the three
\* rounds PE 3 reported to PE 1 and the root's -1 reached PE 3
C39_Witness ==
    /\ npes = 4
    /\ K = 2
    /\ \A p \in PEs : pc[p] = "bench_tree_timed" /\ lvl[p] = BenchWarmup + BenchIters
    /\ \A r \in BenchRounds :
         /\ <<3, 1, "child_vals", r, 0, 0>> \in wrote
         /\ <<0, 3, "GLOBAL_DONE", r, 0, 0>> \in wrote
         /\ \A p \in PEs : BenchReturned(p, r)
(* ----------- initialisation before access, dynamic variant ------------- *)
\* the positions of a PE up to and including the zeroing loop of line 128
DynInitPCs ==
    {"dyn_main_malloc", "dyn_main_init", "dyn_malloc_tables", "dyn_malloc_level",
     "dyn_init_level", "dyn_malloc_LEAF_COUNT", "dyn_zero_LEAF_COUNT"}
\* the static host of group g of level L
DynHostOf(L, g) == dyn_static_group_owner_pe(G_LEAF, L, g)
DynCell(obj, L, g) == [obj |-> obj, l |-> L, g |-> g, host |-> DynHostOf(L, g)]

\* the cells the next step of PE p reads or updates with a get, a
\* fetch-increment or a compare-and-swap (lines 208-219, 236, 262-299)
DynAccesses(p) ==
    LET L == lvl[p]  g == dyn_gidx(p, L)
    IN  CASE pc[p] = "dyn_top_flag"       -> {DynCell("GROUP_DONE", MAX_LEVELS[p] - 1, 0)}
          [] pc[p] = "dyn_leaf_get"       -> {DynCell("GROUP_DONE", 0, dyn_gidx(p, 0))}
          [] pc[p] = "dyn_leaf_fetch_inc" -> {DynCell("LEAF_COUNT", 0, dyn_gidx(p, 0))}
          [] pc[p] = "dyn_leaf_cas"       -> {DynCell("GROUP_DONE", 0, dyn_gidx(p, 0))}
          [] pc[p] = "dyn_leader_get"     -> {DynCell("GROUP_LEADER", L, g)}
          [] pc[p] = "dyn_left_get"       -> {DynCell("GROUP_DONE", L - 1, left_child_idx(g))}
          [] pc[p] = "dyn_right_get"      -> {DynCell("GROUP_DONE", L - 1, right_child_idx(g))}
          [] pc[p] = "dyn_group_cas"      -> {DynCell("GROUP_DONE", L, g)}
          [] pc[p] = "dyn_parent_cas"     -> {DynCell("GROUP_DONE", L + 1, g \div 2)}
          [] OTHER                        -> {}

\* the step is one of PE p's own (its position or its level changes, and the
\* job was not ended by a shmem_global_exit)
DynSteps(p) ==
    /\ exit_status' = exit_status
    /\ <<pc[p], lvl[p], fetched[p], loc[p]>>' # <<pc[p], lvl[p], fetched[p], loc[p]>>

\* PE h has executed its initial stores to the cell: line 128 for LEAF_COUNT,
\* lines 119-122 of the pass of level c.l for the two per-level arrays
DynStored(h, c) ==
    IF c.obj = "LEAF_COUNT"
    THEN pc[h] \notin DynInitPCs
    ELSE /\ pc[h] \notin {"dyn_main_malloc", "dyn_main_init", "dyn_malloc_tables"}
         /\ pc[h] \in {"dyn_malloc_level", "dyn_init_level"} => lvl[h] > c.l

\* C40 (initialisation race in the dynamic variant): no PE performs a remote
\* fetch-increment, compare-and-swap, put or get on LEAF_COUNT, GROUP_DONE or
\* GROUP_LEADER hosted at another PE before that host has executed its
\* initial stores (0, 0, -1) to that slot, so no increment of a fast PE is
\* erased by the host's later initialisation.
C40_InitBeforeAccess ==
    [][ /\ \A p \in PEs : DynSteps(p) =>
              \A c \in DynAccesses(p) : c.host # p => DynStored(c.host, c)
        /\ \A m \in inflight' \ inflight : m.src # m.dst =>
              DynStored(m.dst, [obj |-> m.obj, l |-> m.l, g |-> m.g, host |-> m.dst])
        /\ \A h \in PEs : pc[h] = "dyn_zero_LEAF_COUNT" /\ pc'[h] = "dyn_local_done" =>
              \A g \in DOMAIN LEAF_COUNT[h] : LEAF_COUNT[h][g] = UNINIT
      ]_vars

\* two PEs in one leaf group hosted at PE 0: PE 1 has performed its
\* fetch-increment of LEAF_COUNT[0] at PE 0, and PE 0, which had not reached
\* line 128 then, has since zeroed the counter
C40_Witness ==
    /\ npes = 2 /\ G_LEAF = 2
    /\ fetched = (0 :> 0 @@ 1 :> 1)
    /\ pc[0] = "dyn_local_done"
    /\ LEAF_COUNT[0][0] = 0

====
